---- MODULE Spec2Model ----
(***************************************************************************)
(* Battle state machine and turn orchestrator of BattleGame               *)
(* (src/frontend/src/components/MobileMenu.jsx, lines 78-1913).           *)
(*                                                                         *)
(* battleReducer is modelled as an operator on state records, one         *)
(* operator per case of its switch.  The component's callbacks            *)
(* (handlePlayerAction, handleEnemyTurn, executeAIAction, finishEnemyTurn, *)
(* the win-condition effect, the timers) are the actions of Spec.          *)
(* ReducerSpec adds direct calls of the reducer with arbitrary actions.    *)
(***************************************************************************)
EXTENDS Integers, Sequences, FiniteSets, TLC

(***************************************************************************)
(* Program constants                                                       *)
(***************************************************************************)
ATTACK_ENERGY_COST == 2
DEFEND_ENERGY_COST == 1
BASE_ENERGY_REGEN == 3
SPELL_ENERGY_COST == 4
TOOL_ENERGY_COST == 0
MAX_ENERGY == 15
\* ENERGY_DECAY_RATE = 0.1: Math.floor(e * 0.1) is e \div DECAY_DIVISOR for
\* every integer e >= 0 a battle can hold
DECAY_DIVISOR == 10
\* deployCreature: const maxPlayerFieldSize = 4
maxPlayerFieldSize == 4
\* finishEnemyTurn: const maxHandSize = 5
maxHandSize == 5

(***************************************************************************)
(* Bounds of the model                                                     *)
(***************************************************************************)
\* every creature's battleStats.maxHealth
MaxHealth == 2
\* the newest MaxLog entries of battleLog are kept (nothing reads the log)
MaxLog == 1
\* once turn has reached MaxTurn the enemy's turn is played only if the battle
\* is over, and the AI then ends its turn without an action
MaxTurn == 2
MaxSeqLen == 5
MaxBattles == 1

(***************************************************************************)
(* Array helpers (Array.prototype.some / map / filter)                     *)
(***************************************************************************)
Max(a, b) == IF a >= b THEN a ELSE b
Min(a, b) == IF a <= b THEN a ELSE b

\* a missing numeric field (undefined), and NaN: no energy or cost is negative
Undefined == 0 - 1
NaN == 0 - 2

\* a || b on numbers: 0, undefined and NaN are falsy
OrElse(a, b) == IF a = 0 \/ a = Undefined \/ a = NaN THEN b ELSE a

Some(arr, id) == \E i \in 1..Len(arr) : arr[i].id = id

RemoveId(arr, id) == SelectSeq(arr, LAMBDA x : x.id # id)

ReplaceById(arr, c) == [i \in 1..Len(arr) |-> IF arr[i].id = c.id THEN c ELSE arr[i]]

Alive(c) == c.currentHealth > 0

FilterAlive(arr) == SelectSeq(arr, Alive)

(***************************************************************************)
(* Values of the program                                                   *)
(***************************************************************************)
\* null / undefined where the code tests for it
Null == [isNull |-> TRUE]

\* what a call of the reducer yields when it raises a TypeError
TypeError == [error |-> "TypeError"]

\* useReducer's initial state (BattleGame)
initialState ==
  [ gameState |-> "setup", turn |-> 1, activePlayer |-> "player", difficulty |-> "easy",
    playerDeck |-> <<>>, playerHand |-> <<>>, playerField |-> <<>>, playerEnergy |-> 10,
    playerTools |-> <<>>, playerSpells |-> <<>>,
    enemyDeck |-> <<>>, enemyHand |-> <<>>, enemyField |-> <<>>, enemyEnergy |-> 10,
    enemyTools |-> <<>>, enemySpells |-> <<>>,
    battleLog |-> <<>>,
    consecutiveActions |-> [player |-> 0, enemy |-> 0],
    energyMomentum |-> [player |-> 0, enemy |-> 0] ]

(***************************************************************************)
(* battleReducer, case by case                                             *)
(***************************************************************************)
\* START_BATTLE that leaves the fields, the energies and the turn of the
\* battle before
StartBattleKeepsBoard(state, action) ==
  [state EXCEPT
     !.gameState = "battle",
     !.playerDeck = action.playerDeck,
     !.playerHand = action.playerHand,
     !.enemyDeck = action.enemyDeck,
     !.enemyHand = action.enemyHand,
     !.activePlayer = "player",
     !.battleLog = << [turn |-> 1, message |-> "Battle started"] >>,
     !.playerTools = action.playerTools,
     !.playerSpells = action.playerSpells,
     !.enemyTools = action.enemyTools,
     !.enemySpells = action.enemySpells,
     !.difficulty = action.difficulty,
     !.consecutiveActions = [player |-> 0, enemy |-> 0],
     !.energyMomentum = [player |-> 0, enemy |-> 0]]

START_BATTLE(state, action) ==
  [state EXCEPT
     !.gameState = "battle",
     !.playerDeck = action.playerDeck,
     !.playerHand = action.playerHand,
     !.playerField = <<>>,
     !.enemyDeck = action.enemyDeck,
     !.enemyHand = action.enemyHand,
     !.enemyField = <<>>,
     !.playerEnergy = 10,
     !.enemyEnergy = 10,
     !.turn = 1,
     !.activePlayer = "player",
     !.battleLog = << [turn |-> 1, message |-> "Battle started"] >>,
     !.playerTools = action.playerTools,
     !.playerSpells = action.playerSpells,
     !.enemyTools = action.enemyTools,
     !.enemySpells = action.enemySpells,
     !.difficulty = action.difficulty,
     !.consecutiveActions = [player |-> 0, enemy |-> 0],
     !.energyMomentum = [player |-> 0, enemy |-> 0]]

\* DEPLOY_CREATURE without its energy test
DeployUnchecked(state, action) ==
  LET deployEnergyCost ==
        OrElse(OrElse(action.energyCost, action.creature.battleStats.energyCost), 3)
  IN  [state EXCEPT
         !.playerHand = RemoveId(@, action.creature.id),
         !.playerField = Append(@, action.creature),
         !.playerEnergy = Max(0, @ - deployEnergyCost),
         !.consecutiveActions.player = @ + 1,
         !.energyMomentum.player = @ + deployEnergyCost]

\* DEPLOY_CREATURE that leaves the creature in the hand
DeployKeepsHand(state, action) ==
  LET deployEnergyCost ==
        OrElse(OrElse(action.energyCost, action.creature.battleStats.energyCost), 3)
  IN  IF state.playerEnergy < deployEnergyCost
      THEN state
      ELSE [state EXCEPT
              !.playerField = Append(@, action.creature),
              !.playerEnergy = Max(0, @ - deployEnergyCost),
              !.consecutiveActions.player = @ + 1,
              !.energyMomentum.player = @ + deployEnergyCost]

DEPLOY_CREATURE(state, action) ==
  LET deployEnergyCost ==
        OrElse(OrElse(action.energyCost, action.creature.battleStats.energyCost), 3)
  IN  IF state.playerEnergy < deployEnergyCost
      THEN state
      ELSE [state EXCEPT
              !.playerHand = RemoveId(@, action.creature.id),
              !.playerField = Append(@, action.creature),
              !.playerEnergy = Max(0, @ - deployEnergyCost),
              !.consecutiveActions.player = @ + 1,
              !.energyMomentum.player = @ + deployEnergyCost]

\* ENEMY_DEPLOY_CREATURE that adds nothing to the enemy's momentum
EnemyDeployNoMomentum(state, action) ==
  LET enemyDeployCost ==
        OrElse(OrElse(action.energyCost, action.creature.battleStats.energyCost), 3)
  IN  IF state.enemyEnergy < enemyDeployCost
      THEN state
      ELSE IF Some(state.enemyField, action.creature.id)
      THEN state
      ELSE [state EXCEPT
              !.enemyHand = RemoveId(@, action.creature.id),
              !.enemyField = Append(@, action.creature),
              !.enemyEnergy = Max(0, @ - enemyDeployCost),
              !.consecutiveActions.enemy = @ + 1]

ENEMY_DEPLOY_CREATURE(state, action) ==
  LET enemyDeployCost ==
        OrElse(OrElse(action.energyCost, action.creature.battleStats.energyCost), 3)
  IN  IF state.enemyEnergy < enemyDeployCost
      THEN state
      ELSE IF Some(state.enemyField, action.creature.id)
      THEN state
      ELSE [state EXCEPT
              !.enemyHand = RemoveId(@, action.creature.id),
              !.enemyField = Append(@, action.creature),
              !.enemyEnergy = Max(0, @ - enemyDeployCost),
              !.consecutiveActions.enemy = @ + 1,
              !.energyMomentum.enemy = @ + enemyDeployCost]

UPDATE_CREATURE(state, action) ==
  IF action.isPlayer
  THEN [state EXCEPT !.playerField = ReplaceById(@, action.creature)]
  ELSE [state EXCEPT !.enemyField = ReplaceById(@, action.creature)]

\* the replacement both field maps of ATTACK and USE_SPELL make: the first
\* party (attacker, caster) is tested before the second (defender, target)
ReplaceParties(arr, first, useFirst, second, useSecond) ==
  [i \in 1..Len(arr) |->
     IF useFirst /\ arr[i].id = first.id THEN first
     ELSE IF useSecond /\ arr[i].id = second.id THEN second
     ELSE arr[i]]

\* ATTACK that takes the cost from both sides
AttackChargesBoth(state, action) ==
  LET attackResult == action.attackResult
      isPlayerAttacker == Some(state.playerField, attackResult.updatedAttacker.id)
      isPlayerDefender == Some(state.playerField, attackResult.updatedDefender.id)
  IN  IF isPlayerAttacker /\ state.playerEnergy < action.energyCost
      THEN state
      ELSE IF ~isPlayerAttacker /\ state.enemyEnergy < action.energyCost
      THEN state
      ELSE [state EXCEPT
              !.playerEnergy = Max(0, @ - action.energyCost),
              !.enemyEnergy = Max(0, @ - action.energyCost),
              !.playerField = FilterAlive(ReplaceParties(@,
                   attackResult.updatedAttacker, isPlayerAttacker,
                   attackResult.updatedDefender, isPlayerDefender)),
              !.enemyField = FilterAlive(ReplaceParties(@,
                   attackResult.updatedAttacker, ~isPlayerAttacker,
                   attackResult.updatedDefender, ~isPlayerDefender)),
              !.consecutiveActions.player = IF isPlayerAttacker THEN @ + 1 ELSE @,
              !.consecutiveActions.enemy = IF isPlayerAttacker THEN @ ELSE @ + 1,
              !.energyMomentum.player = IF isPlayerAttacker THEN @ + action.energyCost ELSE @,
              !.energyMomentum.enemy = IF isPlayerAttacker THEN @ ELSE @ + action.energyCost]

\* ATTACK that puts the enemy's creatures that died back into the enemy's hand
AttackReturnsDeadToHand(state, action) ==
  LET attackResult == action.attackResult
      isPlayerAttacker == Some(state.playerField, attackResult.updatedAttacker.id)
      isPlayerDefender == Some(state.playerField, attackResult.updatedDefender.id)
      enemyAfter == ReplaceParties(state.enemyField,
                      attackResult.updatedAttacker, ~isPlayerAttacker,
                      attackResult.updatedDefender, ~isPlayerDefender)
  IN  IF isPlayerAttacker /\ state.playerEnergy < action.energyCost
      THEN state
      ELSE IF ~isPlayerAttacker /\ state.enemyEnergy < action.energyCost
      THEN state
      ELSE [state EXCEPT
              !.playerEnergy = IF isPlayerAttacker THEN Max(0, @ - action.energyCost) ELSE @,
              !.enemyEnergy = IF ~isPlayerAttacker THEN Max(0, @ - action.energyCost) ELSE @,
              !.playerField = FilterAlive(ReplaceParties(@,
                   attackResult.updatedAttacker, isPlayerAttacker,
                   attackResult.updatedDefender, isPlayerDefender)),
              !.enemyField = FilterAlive(enemyAfter),
              !.enemyHand = @ \o SelectSeq(enemyAfter, LAMBDA c : ~Alive(c)),
              !.consecutiveActions.player = IF isPlayerAttacker THEN @ + 1 ELSE @,
              !.consecutiveActions.enemy = IF isPlayerAttacker THEN @ ELSE @ + 1,
              !.energyMomentum.player = IF isPlayerAttacker THEN @ + action.energyCost ELSE @,
              !.energyMomentum.enemy = IF isPlayerAttacker THEN @ ELSE @ + action.energyCost]

ATTACK(state, action) ==
  LET attackResult == action.attackResult
      isPlayerAttacker == Some(state.playerField, attackResult.updatedAttacker.id)
      isPlayerDefender == Some(state.playerField, attackResult.updatedDefender.id)
  IN  IF isPlayerAttacker /\ state.playerEnergy < action.energyCost
      THEN state
      ELSE IF ~isPlayerAttacker /\ state.enemyEnergy < action.energyCost
      THEN state
      ELSE [state EXCEPT
              !.playerEnergy = IF isPlayerAttacker THEN Max(0, @ - action.energyCost) ELSE @,
              !.enemyEnergy = IF ~isPlayerAttacker THEN Max(0, @ - action.energyCost) ELSE @,
              !.playerField = FilterAlive(ReplaceParties(@,
                   attackResult.updatedAttacker, isPlayerAttacker,
                   attackResult.updatedDefender, isPlayerDefender)),
              !.enemyField = FilterAlive(ReplaceParties(@,
                   attackResult.updatedAttacker, ~isPlayerAttacker,
                   attackResult.updatedDefender, ~isPlayerDefender)),
              !.consecutiveActions.player = IF isPlayerAttacker THEN @ + 1 ELSE @,
              !.consecutiveActions.enemy = IF isPlayerAttacker THEN @ ELSE @ + 1,
              !.energyMomentum.player = IF isPlayerAttacker THEN @ + action.energyCost ELSE @,
              !.energyMomentum.enemy = IF isPlayerAttacker THEN @ ELSE @ + action.energyCost]

\* USE_TOOL that leaves the enemy's tool in the enemy's collection
UseToolKeepsEnemyTool(state, action) ==
  IF action.result = Null \/ action.result.updatedCreature = Null
  THEN IF Len(state.playerField) > 0 THEN TypeError ELSE state
  ELSE LET updatedCreature == action.result.updatedCreature
           isPlayerToolTarget == Some(state.playerField, updatedCreature.id)
       IN  [state EXCEPT
              !.playerField = IF isPlayerToolTarget THEN ReplaceById(@, updatedCreature) ELSE @,
              !.enemyField = IF ~isPlayerToolTarget THEN ReplaceById(@, updatedCreature) ELSE @,
              !.playerTools = IF action.isPlayerTool THEN RemoveId(@, action.tool.id) ELSE @,
              !.consecutiveActions.player = IF action.isPlayerTool THEN @ + 1 ELSE @,
              !.consecutiveActions.enemy = IF action.isPlayerTool THEN @ ELSE @ + 1]

\* line 300 reads action.result.updatedCreature.id, once for each creature of
\* playerField, before line 302 tests action.result and
\* action.result.updatedCreature
USE_TOOL(state, action) ==
  IF action.result = Null \/ action.result.updatedCreature = Null
  THEN IF Len(state.playerField) > 0 THEN TypeError ELSE state
  ELSE LET updatedCreature == action.result.updatedCreature
           isPlayerToolTarget == Some(state.playerField, updatedCreature.id)
       IN  [state EXCEPT
              !.playerField = IF isPlayerToolTarget THEN ReplaceById(@, updatedCreature) ELSE @,
              !.enemyField = IF ~isPlayerToolTarget THEN ReplaceById(@, updatedCreature) ELSE @,
              !.playerTools = IF action.isPlayerTool THEN RemoveId(@, action.tool.id) ELSE @,
              !.enemyTools = IF action.isEnemyTool THEN RemoveId(@, action.tool.id) ELSE @,
              !.consecutiveActions.player = IF action.isPlayerTool THEN @ + 1 ELSE @,
              !.consecutiveActions.enemy = IF action.isPlayerTool THEN @ ELSE @ + 1]

USE_SPELL(state, action) ==
  LET spellResult == action.spellResult
      spell == action.spell
  IN  IF spellResult = Null \/ spellResult.updatedCaster = Null \/ spellResult.updatedTarget = Null
      THEN state
      ELSE
      LET isPlayerCaster == Some(state.playerField, spellResult.updatedCaster.id)
          isPlayerTarget == Some(state.playerField, spellResult.updatedTarget.id)
          cost == OrElse(action.energyCost, SPELL_ENERGY_COST)
      IN  IF isPlayerCaster /\ state.playerEnergy < cost
          THEN state
          ELSE IF ~isPlayerCaster /\ state.enemyEnergy < cost
          THEN state
          ELSE [state EXCEPT
                  !.playerField = FilterAlive(ReplaceParties(@,
                       spellResult.updatedCaster, isPlayerCaster,
                       spellResult.updatedTarget, isPlayerTarget)),
                  !.enemyField = FilterAlive(ReplaceParties(@,
                       spellResult.updatedCaster, ~isPlayerCaster,
                       spellResult.updatedTarget, ~isPlayerTarget)),
                  !.playerEnergy = IF isPlayerCaster THEN Max(0, @ - cost) ELSE @,
                  !.enemyEnergy = IF ~isPlayerCaster THEN Max(0, @ - cost) ELSE @,
                  !.playerSpells = IF isPlayerCaster THEN RemoveId(@, spell.id) ELSE @,
                  !.enemySpells = IF action.isEnemySpell THEN RemoveId(@, spell.id) ELSE @,
                  !.consecutiveActions.player = IF isPlayerCaster THEN @ + 1 ELSE @,
                  !.consecutiveActions.enemy = IF isPlayerCaster THEN @ ELSE @ + 1,
                  !.energyMomentum.player = IF isPlayerCaster THEN @ + cost ELSE @,
                  !.energyMomentum.enemy = IF isPlayerCaster THEN @ ELSE @ + cost]

\* DEFEND that tests the player's energy only
DefendEnemyUnchecked(state, action) ==
  LET isPlayerDefending == Some(state.playerField, action.updatedCreature.id)
  IN  IF isPlayerDefending /\ state.playerEnergy < DEFEND_ENERGY_COST
      THEN state
      ELSE [state EXCEPT
              !.playerEnergy = IF isPlayerDefending THEN Max(0, @ - DEFEND_ENERGY_COST) ELSE @,
              !.enemyEnergy = IF ~isPlayerDefending THEN Max(0, @ - DEFEND_ENERGY_COST) ELSE @,
              !.playerField = IF isPlayerDefending THEN ReplaceById(@, action.updatedCreature) ELSE @,
              !.enemyField = IF ~isPlayerDefending THEN ReplaceById(@, action.updatedCreature) ELSE @,
              !.consecutiveActions.player = IF isPlayerDefending THEN @ + 1 ELSE @,
              !.consecutiveActions.enemy = IF isPlayerDefending THEN @ ELSE @ + 1]

DEFEND(state, action) ==
  LET isPlayerDefending == Some(state.playerField, action.updatedCreature.id)
  IN  IF isPlayerDefending /\ state.playerEnergy < DEFEND_ENERGY_COST
      THEN state
      ELSE IF ~isPlayerDefending /\ state.enemyEnergy < DEFEND_ENERGY_COST
      THEN state
      ELSE [state EXCEPT
              !.playerEnergy = IF isPlayerDefending THEN Max(0, @ - DEFEND_ENERGY_COST) ELSE @,
              !.enemyEnergy = IF ~isPlayerDefending THEN Max(0, @ - DEFEND_ENERGY_COST) ELSE @,
              !.playerField = IF isPlayerDefending THEN ReplaceById(@, action.updatedCreature) ELSE @,
              !.enemyField = IF ~isPlayerDefending THEN ReplaceById(@, action.updatedCreature) ELSE @,
              !.consecutiveActions.player = IF isPlayerDefending THEN @ + 1 ELSE @,
              !.consecutiveActions.enemy = IF isPlayerDefending THEN @ ELSE @ + 1]

SPEND_ENERGY(state, action) ==
  IF action.player = "player"
  THEN [state EXCEPT !.playerEnergy = Max(0, @ - action.amount)]
  ELSE [state EXCEPT !.enemyEnergy = Max(0, @ - action.amount)]

\* DRAW_CARD that draws the last card of the deck
DrawCardFromBack(state, action) ==
  IF action.player = "player"
  THEN IF Len(state.playerDeck) = 0 THEN state
       ELSE [state EXCEPT !.playerHand = Append(@, state.playerDeck[Len(state.playerDeck)]),
                          !.playerDeck = SubSeq(@, 1, Len(@) - 1)]
  ELSE IF Len(state.enemyDeck) = 0 THEN state
       ELSE [state EXCEPT !.enemyHand = Append(@, state.enemyDeck[Len(state.enemyDeck)]),
                          !.enemyDeck = SubSeq(@, 1, Len(@) - 1)]

\* DRAW_CARD that leaves the drawn card on the deck
DrawCardKeepsDeck(state, action) ==
  IF action.player = "player"
  THEN IF Len(state.playerDeck) = 0 THEN state
       ELSE [state EXCEPT !.playerHand = Append(@, state.playerDeck[1])]
  ELSE IF Len(state.enemyDeck) = 0 THEN state
       ELSE [state EXCEPT !.enemyHand = Append(@, state.enemyDeck[1])]

DRAW_CARD(state, action) ==
  IF action.player = "player"
  THEN IF Len(state.playerDeck) = 0 THEN state
       ELSE [state EXCEPT !.playerHand = Append(@, state.playerDeck[1]),
                          !.playerDeck = Tail(@)]
  ELSE IF Len(state.enemyDeck) = 0 THEN state
       ELSE [state EXCEPT !.enemyHand = Append(@, state.enemyDeck[1]),
                          !.enemyDeck = Tail(@)]

\* REGENERATE_ENERGY without its cap
RegenerateUncapped(state, action) ==
  [state EXCEPT
     !.playerEnergy = @ + action.playerRegen + (state.energyMomentum.player \div 10),
     !.enemyEnergy = @ + action.enemyRegen + (state.energyMomentum.enemy \div 10),
     !.energyMomentum = [player |-> 0, enemy |-> 0]]

\* REGENERATE_ENERGY that grants each side the other side's momentum bonus
RegenerateSwapsMomentum(state, action) ==
  LET playerMomentumBonus == state.energyMomentum.enemy \div 10
      enemyMomentumBonus == state.energyMomentum.player \div 10
  IN  [state EXCEPT
         !.playerEnergy = Min(MAX_ENERGY, @ + action.playerRegen + playerMomentumBonus),
         !.enemyEnergy = Min(MAX_ENERGY, @ + action.enemyRegen + enemyMomentumBonus),
         !.energyMomentum = [player |-> 0, enemy |-> 0]]

REGENERATE_ENERGY(state, action) ==
  LET playerMomentumBonus == state.energyMomentum.player \div 10
      enemyMomentumBonus == state.energyMomentum.enemy \div 10
  IN  [state EXCEPT
         !.playerEnergy = Min(MAX_ENERGY, @ + action.playerRegen + playerMomentumBonus),
         !.enemyEnergy = Min(MAX_ENERGY, @ + action.enemyRegen + enemyMomentumBonus),
         !.energyMomentum = [player |-> 0, enemy |-> 0]]

\* APPLY_ENERGY_DECAY that decays the side above 10 only
DecayAboveTenOnly(state, action) ==
  [state EXCEPT
     !.playerEnergy = IF @ > 10 THEN Max(0, @ - (@ \div DECAY_DIVISOR)) ELSE @,
     !.enemyEnergy = IF @ > 10 THEN Max(0, @ - (@ \div DECAY_DIVISOR)) ELSE @]

APPLY_ENERGY_DECAY(state, action) ==
  LET playerDecay == state.playerEnergy \div DECAY_DIVISOR
      enemyDecay == state.enemyEnergy \div DECAY_DIVISOR
  IN  [state EXCEPT
         !.playerEnergy = Max(0, @ - playerDecay),
         !.enemyEnergy = Max(0, @ - enemyDecay)]

\* SET_ACTIVE_PLAYER that resets the streak of the side that becomes active only
SetActiveResetsOwnStreak(state, action) ==
  [state EXCEPT !.activePlayer = action.player,
                !.consecutiveActions[action.player] = 0]

SET_ACTIVE_PLAYER(state, action) ==
  [state EXCEPT !.activePlayer = action.player,
                !.consecutiveActions = [player |-> 0, enemy |-> 0]]

\* INCREMENT_TURN that resets the turn
IncrementTurnResets(state, action) ==
  [state EXCEPT !.turn = 1]

INCREMENT_TURN(state, action) ==
  [state EXCEPT !.turn = @ + 1]

SET_GAME_STATE(state, action) ==
  [state EXCEPT !.gameState = action.gameState]

\* ADD_LOG that keeps the new entry only
AddLogReplaces(state, action) ==
  [state EXCEPT !.battleLog = << [turn |-> state.turn, message |-> action.message] >>]

ADD_LOG(state, action) ==
  [state EXCEPT !.battleLog = Append(@, [turn |-> state.turn, message |-> action.message])]

(***************************************************************************)
(* Collaborators of ../utils (battleCore, battleAI, difficultySettings):   *)
(* their code is not part of the sources, so each is its contract of       *)
(* spec section 6, with the magnitudes carried by the item or by an        *)
(* outcome the caller draws.                                               *)
(***************************************************************************)
\* processAttack(attacker, defender): o.damage is dealt to the defender and
\* o.recoil to the attacker
processAttack(attacker, defender, o) ==
  [ updatedAttacker |-> [attacker EXCEPT !.currentHealth = Max(0, @ - o.recoil)],
    updatedDefender |-> [defender EXCEPT !.currentHealth = Max(0, @ - o.damage)],
    battleLog |-> "attack" ]

\* defendCreature(creature, difficulty)
defendCreature(creature) == [creature EXCEPT !.isDefending = TRUE]

\* the creature an item leaves: health moved by item.healthChange within
\* 0..maxHealth, item.effect (if any) added to activeEffects
Affected(target, item) ==
  [target EXCEPT
     !.currentHealth = Min(target.battleStats.maxHealth, Max(0, @ + item.healthChange)),
     !.activeEffects = IF item.effect = Null THEN @ ELSE Append(@, item.effect)]

\* applyTool(target, tool, difficulty) -> {updatedCreature, toolEffect} | null
applyTool(target, tool) ==
  IF tool.fails THEN Null
  ELSE [updatedCreature |-> Affected(target, tool),
        toolEffect |-> [healthChange |-> tool.healthChange]]

\* applySpell(caster, target, spell, difficulty)
\*   -> {updatedCaster, updatedTarget, spellEffect} | null
applySpell(caster, target, spell) ==
  IF spell.fails THEN Null
  ELSE [updatedCaster |-> caster, updatedTarget |-> Affected(target, spell),
        spellEffect |-> [damage |-> Max(0, 0 - spell.healthChange),
                         healing |-> Max(0, spell.healthChange)]]

(***************************************************************************)
(* battleReducer: APPLY_ONGOING_EFFECTS                                    *)
(***************************************************************************)
\* the += of line 519 done twice
ApplyStatEffectTwice(battleStats, statEffect) ==
  IF statEffect = Null THEN battleStats
  ELSE [k \in DOMAIN battleStats |->
          IF k \in DOMAIN statEffect THEN battleStats[k] + 2 * statEffect[k]
          ELSE battleStats[k]]

\* Object.entries(effect.statEffect).forEach: += on the stats battleStats has
ApplyStatEffect(battleStats, statEffect) ==
  IF statEffect = Null THEN battleStats
  ELSE [k \in DOMAIN battleStats |->
          IF k \in DOMAIN statEffect THEN battleStats[k] + statEffect[k] ELSE battleStats[k]]

\* the forEach body that retains an effect whose duration has reached 0
EffectStepKeepsExpired(acc, effect) ==
  IF effect = Null THEN acc
  ELSE
  LET c == acc.creature
      health == IF effect.healthEffect # 0
                THEN Min(c.battleStats.maxHealth, Max(0, c.currentHealth + effect.healthEffect))
                ELSE c.currentHealth
      healthChange == health - c.currentHealth
      stats == ApplyStatEffect(c.battleStats, effect.statEffect)
      updatedEffect == [effect EXCEPT !.duration = @ - 1]
  IN  [ creature |-> [c EXCEPT !.currentHealth = health, !.battleStats = stats],
        remainingEffects |-> IF updatedEffect.duration >= 0
                             THEN Append(acc.remainingEffects, updatedEffect)
                             ELSE acc.remainingEffects,
        logged |-> acc.logged \/ healthChange # 0 \/ updatedEffect.duration <= 0 ]

\* one turn of activeEffects.forEach, on the accumulator
\* acc = [creature, remainingEffects, logged]
EffectStep(acc, effect) ==
  IF effect = Null THEN acc
  ELSE
  LET c == acc.creature
      health == IF effect.healthEffect # 0
                THEN Min(c.battleStats.maxHealth, Max(0, c.currentHealth + effect.healthEffect))
                ELSE c.currentHealth
      healthChange == health - c.currentHealth
      stats == ApplyStatEffect(c.battleStats, effect.statEffect)
      updatedEffect == [effect EXCEPT !.duration = @ - 1]
  IN  [ creature |-> [c EXCEPT !.currentHealth = health, !.battleStats = stats],
        remainingEffects |-> IF updatedEffect.duration > 0
                             THEN Append(acc.remainingEffects, updatedEffect)
                             ELSE acc.remainingEffects,
        logged |-> acc.logged \/ healthChange # 0 \/ updatedEffect.duration <= 0 ]

RECURSIVE EffectFold(_, _, _)
EffectFold(effects, i, acc) ==
  IF i > Len(effects) THEN acc
  ELSE EffectFold(effects, i + 1, EffectStep(acc, effects[i]))

\* the body of the map without the reset of isDefending
ProcessCreatureKeepsDefending(creature) ==
  LET acc == EffectFold(creature.activeEffects, 1,
                        [creature |-> creature, remainingEffects |-> <<>>, logged |-> FALSE])
      updatedCreature ==
        IF Len(creature.activeEffects) > 0
        THEN [acc.creature EXCEPT !.activeEffects = acc.remainingEffects]
        ELSE creature
  IN  [ creature |-> updatedCreature,
        logged |-> Len(creature.activeEffects) > 0 /\ acc.logged ]

\* the body of playerField.map / enemyField.map: the creature after its
\* effects and whether action.addLog was called for it
ProcessCreature(creature) ==
  LET acc == EffectFold(creature.activeEffects, 1,
                        [creature |-> creature, remainingEffects |-> <<>>, logged |-> FALSE])
      updatedCreature ==
        IF Len(creature.activeEffects) > 0
        THEN [acc.creature EXCEPT !.activeEffects = acc.remainingEffects]
        ELSE creature
  IN  [ creature |-> [updatedCreature EXCEPT !.isDefending = FALSE],
        logged |-> Len(creature.activeEffects) > 0 /\ acc.logged ]

ProcessField(field) == [i \in 1..Len(field) |-> ProcessCreature(field[i]).creature]

\* an array an action carries: Null when the action lacks it
Given(arr) == [isNull |-> FALSE, value |-> arr]

APPLY_ONGOING_EFFECTS(state, action) ==
  LET processedPlayerField == ProcessField(state.playerField)
      processedEnemyField == ProcessField(state.enemyField)
  IN  [state EXCEPT
         !.playerField = IF action.updatedPlayerField # Null THEN action.updatedPlayerField.value
                         ELSE FilterAlive(processedPlayerField),
         !.enemyField = IF action.updatedEnemyField # Null THEN action.updatedEnemyField.value
                        ELSE FilterAlive(processedEnemyField)]

\* the number of action.addLog calls APPLY_ONGOING_EFFECTS makes on state
EffectLogCount(state) ==
  Cardinality({i \in 1..Len(state.playerField) : ProcessCreature(state.playerField[i]).logged})
  + Cardinality({i \in 1..Len(state.enemyField) : ProcessCreature(state.enemyField[i]).logged})

\* COMBO_BONUS that raises physicalAttack only
ComboBonusPhysicalOnly(state, action) ==
  LET comboLevel == IF action.player = "player" THEN state.consecutiveActions.player
                    ELSE state.consecutiveActions.enemy
      Bonus(creature) == [creature EXCEPT !.battleStats.physicalAttack = @ + 2]
  IN  IF comboLevel >= 3
      THEN IF action.player = "player"
           THEN [state EXCEPT !.playerField = [i \in 1..Len(@) |-> Bonus(@[i])]]
           ELSE [state EXCEPT !.enemyField = [i \in 1..Len(@) |-> Bonus(@[i])]]
      ELSE state

COMBO_BONUS(state, action) ==
  LET comboLevel == IF action.player = "player" THEN state.consecutiveActions.player
                    ELSE state.consecutiveActions.enemy
      Bonus(creature) ==
        [creature EXCEPT !.battleStats.physicalAttack = @ + 2,
                         !.battleStats.magicalAttack = @ + 2]
  IN  IF comboLevel >= 3
      THEN IF action.player = "player"
           THEN [state EXCEPT !.playerField = [i \in 1..Len(@) |-> Bonus(@[i])]]
           ELSE [state EXCEPT !.enemyField = [i \in 1..Len(@) |-> Bonus(@[i])]]
      ELSE state

(***************************************************************************)
(* battleReducer: EXECUTE_AI_ACTION, EXECUTE_AI_ACTION_SEQUENCE            *)
(* An aiAction is [type, creature, attacker, target, caster, tool, spell,  *)
(* energyCost, outcome]; a field the descriptor lacks is Null, a missing   *)
(* energyCost is Undefined. outcome is what processAttack will answer.     *)
(***************************************************************************)
EXECUTE_AI_ACTION(state, action) ==
  LET aiAction == action.aiAction
      updatedState == state
  IN
  CASE aiAction.type = "deploy" ->
         IF aiAction.creature = Null THEN updatedState
         ELSE LET deployCost == OrElse(aiAction.energyCost, 3)
              IN  IF updatedState.enemyEnergy < deployCost THEN updatedState
                  ELSE IF Some(updatedState.enemyField, aiAction.creature.id) THEN updatedState
                  ELSE [updatedState EXCEPT
                          !.enemyHand = RemoveId(@, aiAction.creature.id),
                          !.enemyField = Append(@, aiAction.creature),
                          !.enemyEnergy = Max(0, @ - deployCost),
                          !.consecutiveActions.enemy = @ + 1,
                          !.energyMomentum.enemy = @ + deployCost]
    [] aiAction.type = "attack" ->
         IF aiAction.attacker = Null \/ aiAction.target = Null THEN updatedState
         ELSE LET attackCost == OrElse(aiAction.energyCost, 2)
                  attackResult == processAttack(aiAction.attacker, aiAction.target, aiAction.outcome)
              IN  IF updatedState.enemyEnergy < attackCost THEN updatedState
                  ELSE [updatedState EXCEPT
                          !.enemyEnergy = Max(0, @ - attackCost),
                          !.consecutiveActions.enemy = @ + 1,
                          !.energyMomentum.enemy = @ + attackCost,
                          !.playerField = FilterAlive(ReplaceById(@, attackResult.updatedDefender)),
                          !.enemyField = ReplaceById(@, attackResult.updatedAttacker)]
    [] aiAction.type = "defend" ->
         IF aiAction.creature = Null THEN updatedState
         ELSE LET defendCost == OrElse(aiAction.energyCost, 1)
                  updatedDefender == defendCreature(aiAction.creature)
              IN  IF updatedState.enemyEnergy < defendCost THEN updatedState
                  ELSE [updatedState EXCEPT
                          !.enemyEnergy = Max(0, @ - defendCost),
                          !.consecutiveActions.enemy = @ + 1,
                          !.enemyField = ReplaceById(@, updatedDefender)]
    [] aiAction.type = "useTool" ->
         IF aiAction.tool = Null \/ aiAction.target = Null THEN updatedState
         ELSE LET result == applyTool(aiAction.target, aiAction.tool)
              IN  IF result = Null THEN updatedState
                  ELSE LET isEnemyTarget == Some(updatedState.enemyField, aiAction.target.id)
                       IN  [updatedState EXCEPT
                              !.enemyField = IF isEnemyTarget
                                             THEN ReplaceById(@, result.updatedCreature) ELSE @,
                              !.playerField = IF isEnemyTarget THEN @
                                              ELSE ReplaceById(@, result.updatedCreature),
                              !.enemyTools = RemoveId(@, aiAction.tool.id),
                              !.consecutiveActions.enemy = @ + 1]
    [] aiAction.type = "useSpell" ->
         IF aiAction.spell = Null \/ aiAction.caster = Null \/ aiAction.target = Null
         THEN updatedState
         ELSE LET spellCost == OrElse(aiAction.energyCost, SPELL_ENERGY_COST)
                  spellResult == applySpell(aiAction.caster, aiAction.target, aiAction.spell)
              IN  IF updatedState.enemyEnergy < spellCost THEN updatedState
                  ELSE IF spellResult = Null THEN updatedState
                  ELSE [updatedState EXCEPT
                          !.enemyEnergy = Max(0, @ - spellCost),
                          !.consecutiveActions.enemy = @ + 1,
                          !.energyMomentum.enemy = @ + spellCost,
                          !.enemyField = FilterAlive(ReplaceParties(@,
                               spellResult.updatedCaster, TRUE, spellResult.updatedTarget, TRUE)),
                          !.playerField = FilterAlive(ReplaceById(@, spellResult.updatedTarget)),
                          !.enemySpells = RemoveId(@, aiAction.spell.id)]
    [] OTHER -> updatedState

\* newState.enemyEnergy < actionCost, false on NaN
EnergyBelow(energy, cost) == energy # NaN /\ energy < cost

\* Math.max(0, newState.enemyEnergy - aiAction.energyCost)
EnergyLess(energy, energyCost) ==
  IF energy = NaN \/ energyCost = Undefined THEN NaN ELSE Max(0, energy - energyCost)

\* one turn of the for loop of EXECUTE_AI_ACTION_SEQUENCE
SequenceStep(newState, aiAction) ==
  LET actionCost == OrElse(aiAction.energyCost, 0)
  IN
  IF EnergyBelow(newState.enemyEnergy, actionCost) THEN newState
  ELSE
  CASE aiAction.type = "deploy" ->
         IF aiAction.creature = Null THEN TypeError
         ELSE IF Some(newState.enemyField, aiAction.creature.id) THEN newState
         ELSE [newState EXCEPT
                 !.enemyHand = RemoveId(@, aiAction.creature.id),
                 !.enemyField = Append(@, aiAction.creature),
                 !.enemyEnergy = EnergyLess(@, aiAction.energyCost)]
    [] aiAction.type = "attack" ->
         LET attackResult == processAttack(aiAction.attacker, aiAction.target, aiAction.outcome)
         IN  [newState EXCEPT
                !.enemyEnergy = EnergyLess(@, aiAction.energyCost),
                !.playerField = FilterAlive(ReplaceById(@, attackResult.updatedDefender)),
                !.enemyField = ReplaceById(@, attackResult.updatedAttacker)]
    [] aiAction.type = "defend" ->
         LET updatedDefender == defendCreature(aiAction.creature)
         IN  [newState EXCEPT
                !.enemyEnergy = EnergyLess(@, aiAction.energyCost),
                !.enemyField = ReplaceById(@, updatedDefender)]
    [] OTHER -> newState

\* a loop that a skipped step ends
RECURSIVE SequenceFoldAborts(_, _, _)
SequenceFoldAborts(newState, actionSequence, i) ==
  IF newState = TypeError \/ i > Len(actionSequence) THEN newState
  ELSE LET after == SequenceStep(newState, actionSequence[i])
       IN  IF after = newState THEN newState
           ELSE SequenceFoldAborts(after, actionSequence, i + 1)

RECURSIVE SequenceFold(_, _, _)
SequenceFold(newState, actionSequence, i) ==
  IF newState = TypeError \/ i > Len(actionSequence) THEN newState
  ELSE SequenceFold(SequenceStep(newState, actionSequence[i]), actionSequence, i + 1)

EXECUTE_AI_ACTION_SEQUENCE(state, action) ==
  SequenceFold(state, action.actionSequence, 1)

(***************************************************************************)
(* battleReducer                                                           *)
(***************************************************************************)
battleReducer(state, action) ==
  CASE action.type = "START_BATTLE" -> START_BATTLE(state, action)
    [] action.type = "DEPLOY_CREATURE" -> DEPLOY_CREATURE(state, action)
    [] action.type = "ENEMY_DEPLOY_CREATURE" -> ENEMY_DEPLOY_CREATURE(state, action)
    [] action.type = "UPDATE_CREATURE" -> UPDATE_CREATURE(state, action)
    [] action.type = "ATTACK" -> ATTACK(state, action)
    [] action.type = "USE_TOOL" -> USE_TOOL(state, action)
    [] action.type = "USE_SPELL" -> USE_SPELL(state, action)
    [] action.type = "DEFEND" -> DEFEND(state, action)
    [] action.type = "SPEND_ENERGY" -> SPEND_ENERGY(state, action)
    [] action.type = "DRAW_CARD" -> DRAW_CARD(state, action)
    [] action.type = "REGENERATE_ENERGY" -> REGENERATE_ENERGY(state, action)
    [] action.type = "APPLY_ENERGY_DECAY" -> APPLY_ENERGY_DECAY(state, action)
    [] action.type = "SET_ACTIVE_PLAYER" -> SET_ACTIVE_PLAYER(state, action)
    [] action.type = "INCREMENT_TURN" -> INCREMENT_TURN(state, action)
    [] action.type = "SET_GAME_STATE" -> SET_GAME_STATE(state, action)
    [] action.type = "APPLY_ONGOING_EFFECTS" -> APPLY_ONGOING_EFFECTS(state, action)
    [] action.type = "ADD_LOG" -> ADD_LOG(state, action)
    [] action.type = "EXECUTE_AI_ACTION" -> EXECUTE_AI_ACTION(state, action)
    [] action.type = "EXECUTE_AI_ACTION_SEQUENCE" -> EXECUTE_AI_ACTION_SEQUENCE(state, action)
    [] action.type = "COMBO_BONUS" -> COMBO_BONUS(state, action)
    [] OTHER -> state

\* the creatures of a field the pass was given, after the pass: line 519
\* (578 for the enemy) adds to the battleStats object that the copy
\* { ...creature } shares with the creature of the state before
SharedBattleStats(field) ==
  [i \in 1..Len(field) |->
     [field[i] EXCEPT !.battleStats = ProcessCreature(field[i]).creature.battleStats]]

\* the state object battleReducer was called with, as it is when the call
\* has returned: EXECUTE_AI_ACTION increments consecutiveActions.enemy and
\* energyMomentum.enemy on the objects that { ...state } shares with the
\* state before (652-653, 667-668, 691, 717, 734-735), APPLY_ONGOING_EFFECTS
\* adds to the creatures' shared battleStats; every other case builds new
\* objects
StateAfterCall(state, action) ==
  CASE action.type = "EXECUTE_AI_ACTION" ->
         LET result == EXECUTE_AI_ACTION(state, action)
         IN  IF result = TypeError THEN state
             ELSE [state EXCEPT !.consecutiveActions = result.consecutiveActions,
                                !.energyMomentum = result.energyMomentum]
    [] action.type = "APPLY_ONGOING_EFFECTS" ->
         [state EXCEPT !.playerField = SharedBattleStats(@),
                       !.enemyField = SharedBattleStats(@)]
    [] OTHER -> state

(***************************************************************************)
(* The battle's inputs: the player's NFTs and what the difficulty          *)
(* collaborators answer (GameContext, difficultySettings: not part of the  *)
(* sources).                                                               *)
(***************************************************************************)
calculateCreatureEnergyCost(creature) == 5 + creature.form

\* initializeBattle's battle-ready version of a creature; calculateDerivedStats
\* answers maxHealth = MaxHealth and the two attacks
BattleCreature(id, form, energy) ==
  [ id |-> id, form |-> form, stats |-> [energy |-> energy],
    battleStats |-> [ maxHealth |-> MaxHealth, physicalAttack |-> 3, magicalAttack |-> 2,
                      energyCost |-> calculateCreatureEnergyCost([form |-> form]) ],
    currentHealth |-> MaxHealth,
    activeEffects |-> <<>>,
    isDefending |-> FALSE ]

\* an item (tool or spell) with what applyTool / applySpell make of it
Item(id, healthChange, effect, fails) ==
  [id |-> id, name |-> id, healthChange |-> healthChange, effect |-> effect, fails |-> fails]

Poison == [name |-> "poison", duration |-> 2, healthEffect |-> 0 - 1, statEffect |-> Null]

\* a duel: one creature a side (the player's with an energy stat of 100), a
\* tool and a spell for the player and for the enemy, and a difficulty
\* whose enemy regenerates 5 a turn
Duel ==
  [ creatureNfts |-> << BattleCreature("P1", 0, 100) >>,
    toolNfts |-> << Item("T1", 1, Null, FALSE) >>,
    spellNfts |-> << Item("S1", 0 - 1, Poison, FALSE) >>,
    enemyCreatures |-> << BattleCreature("E1", 0, 50) >>,
    enemyItems |-> [tools |-> << Item("ET1", 1, Null, FALSE) >>,
                    spells |-> << Item("ES1", 0 - 2, Null, FALSE) >>],
    settings |-> [enemyDeckSize |-> 1, initialHandSize |-> 1, enemyEnergyRegen |-> 5],
    \* what processAttack may answer: a hit, a heavy hit that costs the attacker,
    \* or a blocked attack that costs the attacker
    attackOutcomes |-> { [damage |-> 1, recoil |-> 0], [damage |-> 2, recoil |-> 1],
                         [damage |-> 0, recoil |-> 1] },
    aiMoves |-> {"deploy", "attack", "defend", "useTool", "useSpell"},
    \* the AI declares its deploys at 7 energy
    aiDeployCost |-> 7 ]

\* a melee: four creatures for the player (one starts in the deck), three for
\* the enemy (one starts in the deck), no items
Melee ==
  [ creatureNfts |-> << BattleCreature("P1", 0, 50), BattleCreature("P2", 1, 0),
                        BattleCreature("P3", 0, 0), BattleCreature("P4", 0, 0) >>,
    toolNfts |-> << >>,
    spellNfts |-> << >>,
    enemyCreatures |-> << BattleCreature("E1", 0, 50), BattleCreature("E2", 0, 0),
                          BattleCreature("E3", 0, 0) >>,
    enemyItems |-> [tools |-> << >>, spells |-> << >>],
    settings |-> [enemyDeckSize |-> 3, initialHandSize |-> 2, enemyEnergyRegen |-> 3],
    attackOutcomes |-> { [damage |-> 1, recoil |-> 0], [damage |-> 2, recoil |-> 1] },
    aiMoves |-> {"deploy", "attack", "defend"},
    aiDeployCost |-> Undefined ]

\* a swarm: five enemy creatures in the opening hand, attacks that are all
\* blocked, and an AI that only deploys and declares its deploys at 2 energy
Swarm ==
  [ creatureNfts |-> << BattleCreature("P1", 3, 50) >>,
    toolNfts |-> << >>,
    spellNfts |-> << >>,
    enemyCreatures |-> << BattleCreature("E1", 0, 0), BattleCreature("E2", 0, 0),
                          BattleCreature("E3", 0, 0), BattleCreature("E4", 0, 0),
                          BattleCreature("E5", 0, 0) >>,
    enemyItems |-> [tools |-> << >>, spells |-> << >>],
    settings |-> [enemyDeckSize |-> 5, initialHandSize |-> 5, enemyEnergyRegen |-> 3],
    \* every attack is blocked
    attackOutcomes |-> { [damage |-> 0, recoil |-> 0] },
    aiMoves |-> {"deploy"},
    aiDeployCost |-> 2 ]

\* a skirmish: the enemy holds a creature of form 0 (5 energy) and one of
\* form 3 (8 energy) and only deploys, at the creatures' own costs; every
\* attack kills; the battle is followed for one turn more
Skirmish ==
  [ creatureNfts |-> << BattleCreature("P1", 0, 0) >>,
    toolNfts |-> << Item("T1", 1, Null, FALSE) >>,
    spellNfts |-> << Item("S1", 0 - 1, Null, FALSE) >>,
    enemyCreatures |-> << BattleCreature("E1", 0, 0), BattleCreature("E2", 3, 0) >>,
    enemyItems |-> [tools |-> << >>, spells |-> << >>],
    settings |-> [enemyDeckSize |-> 2, initialHandSize |-> 2, enemyEnergyRegen |-> 3],
    attackOutcomes |-> { [damage |-> MaxHealth, recoil |-> 0] },
    aiMoves |-> {"deploy"},
    aiDeployCost |-> Undefined ]

\* getDifficultySettings(difficulty)
getDifficultySettings(scenario) == scenario.settings


(***************************************************************************)
(* State of the component                                                  *)
(***************************************************************************)
VARIABLES
  scenario,          \* the inputs of the battle (constant through a run)
  state,             \* useReducer(battleReducer, ...)
  actionInProgress,  \* useState(false): the re-entrancy guard
  releaseTimer,      \* a setTimeout(() => setActionInProgress(false), 300) is pending
  winPending,        \* the win-condition effect's 100 ms timer is pending
  pc,                \* the pending timer of the enemy-turn pipeline, or "none"
  closure,           \* the render whose values the pipeline's next callback reads
  later,             \* the render executeAIAction's own callbacks were created in
  snapE,             \* the last render in which enemyEnergy changed
  seqLeft,           \* how many more steps the AI's action array may hold
  battles,           \* how many battles have been started
  probe              \* the last direct call of battleReducer, its action and result

vars == << scenario, state, actionInProgress, releaseTimer, winPending, pc, closure,
           later, snapE, seqLeft, battles, probe >>

NoProbe == [action |-> Null, result |-> Null]

\* the turn from which the enemy's turn is no longer played
TurnCap == IF scenario = Skirmish THEN MaxTurn + 1 ELSE MaxTurn

\* a render as a closure keeps it (nothing reads the log)
Snap(s) == [s EXCEPT !.battleLog = <<>>]

Render1 == Snap(initialState)

LastN(seq, n) == IF Len(seq) <= n THEN seq ELSE SubSeq(seq, Len(seq) - n + 1, Len(seq))

Trim(s) == [s EXCEPT !.battleLog = LastN(@, MaxLog)]

\* the action addToBattleLog(message) dispatches
addToBattleLog(message) == [type |-> "ADD_LOG", message |-> message]

When(condition, actions) == IF condition THEN actions ELSE << >>

\* The state the reducer makes of s and the actions one callback dispatched,
\* from the i-th on.  The addLog calls APPLY_ONGOING_EFFECTS makes while it
\* runs are dispatches that queue up behind the callback's own.
RECURSIVE Settle(_, _, _, _)
Settle(s, actions, i, addLogs) ==
  IF i > Len(actions)
  THEN IF addLogs = 0 THEN s
       ELSE Settle(s, << addToBattleLog("effect") >>, 1, addLogs - 1)
  ELSE Settle(battleReducer(s, actions[i]), actions, i + 1,
              IF actions[i].type = "APPLY_ONGOING_EFFECTS"
              THEN addLogs + EffectLogCount(s) ELSE addLogs)

\* what the win-condition effect depends on
EffectDeps(s) ==
  << s.gameState, Len(s.enemyField), Len(s.enemyHand), Len(s.enemyDeck),
     Len(s.playerField), Len(s.playerHand), Len(s.playerDeck) >>

\* the render after a callback has dispatched actions
Rendered(s) ==
  /\ state' = Trim(s)
  /\ snapE' = IF s.enemyEnergy # state.enemyEnergy THEN Snap(s) ELSE snapE
  /\ winPending' = IF EffectDeps(s) # EffectDeps(state) THEN s.gameState = "battle"
                   ELSE winPending
  /\ probe' = NoProbe

Commit(actions) == Rendered(Settle(state, actions, 1, 0))

Init ==
  /\ scenario \in {Duel, Melee, Swarm}
  /\ state = initialState
  /\ actionInProgress = FALSE
  /\ releaseTimer = FALSE
  /\ winPending = FALSE
  /\ pc = "none"
  /\ closure = Null
  /\ later = Null
  /\ snapE = Render1
  /\ seqLeft = 0
  /\ battles = 0
  /\ probe = NoProbe

SkirmishInit ==
  /\ scenario = Skirmish
  /\ state = initialState
  /\ actionInProgress = FALSE
  /\ releaseTimer = FALSE
  /\ winPending = FALSE
  /\ pc = "none"
  /\ closure = Null
  /\ later = Null
  /\ snapE = Render1
  /\ seqLeft = 0
  /\ battles = 0
  /\ probe = NoProbe

(***************************************************************************)
(* initializeBattle                                                        *)
(***************************************************************************)
StartBattleAction ==
  LET battleCreatures == scenario.creatureNfts
      enemyWithStats == scenario.enemyCreatures
      playerInitialHandSize == Min(3, Len(battleCreatures))
      enemyInitialHandSize == Min(getDifficultySettings(scenario).initialHandSize,
                                  Len(enemyWithStats))
  IN  [ type |-> "START_BATTLE",
        playerDeck |-> SubSeq(battleCreatures, playerInitialHandSize + 1, Len(battleCreatures)),
        playerHand |-> SubSeq(battleCreatures, 1, playerInitialHandSize),
        playerTools |-> scenario.toolNfts,
        playerSpells |-> scenario.spellNfts,
        enemyDeck |-> SubSeq(enemyWithStats, enemyInitialHandSize + 1, Len(enemyWithStats)),
        enemyHand |-> SubSeq(enemyWithStats, 1, enemyInitialHandSize),
        enemyTools |-> scenario.enemyItems.tools,
        enemySpells |-> scenario.enemyItems.spells,
        difficulty |-> "easy" ]

initializeBattle ==
  /\ state.gameState = "setup"
  /\ Len(scenario.creatureNfts) > 0
  /\ pc = "none" /\ ~releaseTimer
  /\ battles < MaxBattles
  /\ battles' = battles + 1
  /\ Commit(<< StartBattleAction, addToBattleLog("Your turn") >>)
  /\ UNCHANGED << scenario, actionInProgress, releaseTimer, pc, closure, later, seqLeft >>

(***************************************************************************)
(* The callbacks of the component.  Each is the sequence of actions it     *)
(* dispatches; cl is the render it was created in, whose values it reads.  *)
(***************************************************************************)
deployCreature(cl, creature) ==
  IF Len(cl.playerField) >= maxPlayerFieldSize
  THEN << addToBattleLog("Your battlefield is full") >>
  ELSE LET energyCost == OrElse(creature.battleStats.energyCost, 3)
       IN  IF cl.playerEnergy < energyCost
           THEN << addToBattleLog("Not enough energy to deploy") >>
           ELSE << [type |-> "DEPLOY_CREATURE", creature |-> creature,
                    energyCost |-> energyCost],
                   addToBattleLog("You deployed") >>

attackCreature(cl, attacker, defender, o) ==
  LET isPlayerAttacker == Some(cl.playerField, attacker.id)
      attackResult == processAttack(attacker, defender, o)
  IN  IF isPlayerAttacker /\ cl.playerEnergy < ATTACK_ENERGY_COST
      THEN << addToBattleLog("Not enough energy to attack") >>
      ELSE << [type |-> "ATTACK", attackResult |-> attackResult,
               energyCost |-> ATTACK_ENERGY_COST],
              addToBattleLog(attackResult.battleLog) >>

useTool(tool, targetCreature, isPlayerTool) ==
  LET result == applyTool(targetCreature, tool)
  IN  IF result = Null
      THEN << addToBattleLog("Failed to use tool") >>
      ELSE << [type |-> "USE_TOOL", result |-> result, tool |-> tool,
               isPlayerTool |-> isPlayerTool, isEnemyTool |-> ~isPlayerTool],
              addToBattleLog("Tool was used") >>
           \o When(result.toolEffect.healthChange > 0, << addToBattleLog("Healed") >>)

useSpell(cl, spell, caster, target, isPlayerSpell) ==
  LET energyCost == SPELL_ENERGY_COST
      effectiveTarget == IF target = Null THEN caster ELSE target
      spellResult == applySpell(caster, effectiveTarget, spell)
  IN  IF isPlayerSpell /\ cl.playerEnergy < energyCost
      THEN << addToBattleLog("Not enough energy to cast") >>
      ELSE IF spellResult = Null
      THEN << addToBattleLog("Failed to cast") >>
      ELSE << [type |-> "USE_SPELL", spellResult |-> spellResult, spell |-> spell,
               energyCost |-> energyCost, isEnemySpell |-> ~isPlayerSpell],
              addToBattleLog("cast") >>
           \o When(spellResult.spellEffect.damage > 0,
                   << addToBattleLog("The spell dealt damage") >>)
           \o When(spellResult.spellEffect.healing > 0,
                   << addToBattleLog("The spell healed") >>)

defendCreatureAction(cl, creature) ==
  LET isPlayerCreature == Some(cl.playerField, creature.id)
  IN  IF isPlayerCreature /\ cl.playerEnergy < DEFEND_ENERGY_COST
      THEN << addToBattleLog("Not enough energy to defend") >>
      ELSE << [type |-> "DEFEND", updatedCreature |-> defendCreature(creature)],
              addToBattleLog("took a defensive stance") >>

RECURSIVE TotalEnergy(_, _)
TotalEnergy(field, i) ==
  IF i > Len(field) THEN 0 ELSE field[i].stats.energy + TotalEnergy(field, i + 1)

regenerateEnergy(cl, settings) ==
  LET playerBonus == TotalEnergy(cl.playerField, 1) \div 50
      enemyBonus == TotalEnergy(cl.enemyField, 1) \div 50
      enemyDifficultyBonus == OrElse(settings.enemyEnergyRegen, 0) - 2
      playerRegen == BASE_ENERGY_REGEN + playerBonus
      enemyRegen == BASE_ENERGY_REGEN + enemyBonus + enemyDifficultyBonus
  IN  << [type |-> "REGENERATE_ENERGY", playerRegen |-> playerRegen,
          enemyRegen |-> enemyRegen],
         addToBattleLog(IF cl.activePlayer = "player" THEN "You gained energy"
                        ELSE "Enemy gained energy") >>

applyEnergyDecay(cl) ==
  When(cl.playerEnergy > 10 \/ cl.enemyEnergy > 10, << [type |-> "APPLY_ENERGY_DECAY"] >>)

\* dispatch({ type: ACTIONS.APPLY_ONGOING_EFFECTS, addLog: addToBattleLog })
applyOngoingEffects ==
  [type |-> "APPLY_ONGOING_EFFECTS", updatedPlayerField |-> Null, updatedEnemyField |-> Null]

finishEnemyTurn(cl, settings) ==
  << applyOngoingEffects >>
  \o applyEnergyDecay(cl)
  \o << [type |-> "INCREMENT_TURN"], [type |-> "SET_ACTIVE_PLAYER", player |-> "player"] >>
  \o When(Len(cl.playerHand) < maxHandSize /\ Len(cl.playerDeck) > 0,
          << [type |-> "DRAW_CARD", player |-> "player"], addToBattleLog("You drew") >>)
  \o When(Len(cl.enemyHand) < settings.initialHandSize + 1 /\ Len(cl.enemyDeck) > 0,
          << [type |-> "DRAW_CARD", player |-> "enemy"],
             addToBattleLog("Enemy drew a card") >>)
  \o regenerateEnergy(cl, settings)
  \o When(cl.consecutiveActions.enemy >= 3,
          << [type |-> "COMBO_BONUS", player |-> "enemy"],
             addToBattleLog("Enemy achieved a combo bonus") >>)
  \o << addToBattleLog("Your turn") >>

(***************************************************************************)
(* The enemy's actions: what determineAIAction may answer from the render  *)
(* handleEnemyTurn closes over, and executeSingleAIAction                  *)
(***************************************************************************)
Descriptor(type) ==
  [ type |-> type, creature |-> Null, attacker |-> Null, target |-> Null, caster |-> Null,
    tool |-> Null, spell |-> Null, energyCost |-> Undefined, outcome |-> Null ]

AIMoves(cl) ==
  { [Descriptor("deploy") EXCEPT !.creature = cl.enemyHand[i],
                                 !.energyCost = scenario.aiDeployCost] :
      i \in 1..Len(cl.enemyHand) }
  \cup
  { [Descriptor("attack") EXCEPT !.attacker = cl.enemyField[i], !.target = cl.playerField[j],
                                 !.energyCost = ATTACK_ENERGY_COST, !.outcome = o] :
      i \in 1..Len(cl.enemyField), j \in 1..Len(cl.playerField),
      o \in scenario.attackOutcomes }
  \cup
  { [Descriptor("defend") EXCEPT !.creature = cl.enemyField[i],
                                 !.energyCost = DEFEND_ENERGY_COST] :
      i \in 1..Len(cl.enemyField) }
  \cup
  { [Descriptor("useTool") EXCEPT !.tool = cl.enemyTools[t], !.target = cl.enemyField[i]] :
      t \in 1..Len(cl.enemyTools), i \in 1..Len(cl.enemyField) }
  \cup
  { [Descriptor("useSpell") EXCEPT !.spell = cl.enemySpells[k], !.caster = cl.enemyField[i],
                                   !.target = cl.playerField[j],
                                   !.energyCost = SPELL_ENERGY_COST] :
      k \in 1..Len(cl.enemySpells), i \in 1..Len(cl.enemyField), j \in 1..Len(cl.playerField) }

\* the moves the scenario's AI makes
AIChoices(cl) == {aiAction \in AIMoves(cl) : aiAction.type \in scenario.aiMoves}

\* executeSingleAIAction as created in a render whose enemyEnergy is enemyEnergy
executeSingleAIAction(aiAction, enemyEnergy) ==
  CASE aiAction.type = "endTurn" -> << addToBattleLog("Enemy ended their turn") >>
    [] aiAction.type = "deploy" ->
         IF aiAction.creature = Null THEN << >>
         ELSE LET energyCost == OrElse(OrElse(aiAction.energyCost,
                                              aiAction.creature.battleStats.energyCost), 3)
              IN  IF enemyEnergy < energyCost THEN << >>
                  ELSE << [type |-> "ENEMY_DEPLOY_CREATURE", creature |-> aiAction.creature,
                           energyCost |-> energyCost],
                          addToBattleLog("Enemy deployed") >>
    [] aiAction.type = "attack" ->
         IF aiAction.attacker = Null \/ aiAction.target = Null THEN << >>
         ELSE LET attackCost == OrElse(aiAction.energyCost, ATTACK_ENERGY_COST)
                  attackResult == processAttack(aiAction.attacker, aiAction.target,
                                                aiAction.outcome)
              IN  IF enemyEnergy < attackCost THEN << >>
                  ELSE << [type |-> "ATTACK", attackResult |-> attackResult,
                           energyCost |-> attackCost],
                          addToBattleLog(attackResult.battleLog) >>
    [] aiAction.type = "defend" ->
         IF aiAction.creature = Null THEN << >>
         ELSE LET defendCost == OrElse(aiAction.energyCost, DEFEND_ENERGY_COST)
              IN  IF enemyEnergy < defendCost THEN << >>
                  ELSE << [type |-> "DEFEND",
                           updatedCreature |-> defendCreature(aiAction.creature)],
                          addToBattleLog("took a defensive stance") >>
    [] aiAction.type = "useTool" ->
         IF aiAction.tool = Null \/ aiAction.target = Null THEN << >>
         ELSE LET toolResult == applyTool(aiAction.target, aiAction.tool)
              IN  IF toolResult = Null THEN << >>
                  ELSE << [type |-> "USE_TOOL", result |-> toolResult, tool |-> aiAction.tool,
                           isPlayerTool |-> FALSE, isEnemyTool |-> TRUE],
                          addToBattleLog("Tool was used") >>
    [] aiAction.type = "useSpell" ->
         IF aiAction.spell = Null \/ aiAction.caster = Null \/ aiAction.target = Null
         THEN << >>
         ELSE LET spellCost == OrElse(aiAction.energyCost, SPELL_ENERGY_COST)
                  spellResult == applySpell(aiAction.caster, aiAction.target, aiAction.spell)
              IN  IF enemyEnergy < spellCost THEN << >>
                  ELSE IF spellResult = Null THEN << >>
                  ELSE << [type |-> "USE_SPELL", spellResult |-> spellResult,
                           spell |-> aiAction.spell, energyCost |-> spellCost,
                           isEnemySpell |-> TRUE],
                          addToBattleLog("cast") >>
    [] OTHER -> << >>

(***************************************************************************)
(* handlePlayerAction                                                      *)
(***************************************************************************)
\* the guard of handlePlayerAction without its test of actionInProgress
AcceptsWhileBusy == state.activePlayer = "player" /\ state.gameState = "battle"

\* the guard of handlePlayerAction
Accepts == ~actionInProgress /\ state.activePlayer = "player" /\ state.gameState = "battle"

\* setActionInProgress(true) ... setTimeout(() => setActionInProgress(false), 300)
Guarded(actions) ==
  /\ Commit(actions)
  /\ actionInProgress' = TRUE
  /\ releaseTimer' = TRUE
  /\ UNCHANGED << scenario, battles, pc, closure, later, seqLeft >>

\* an early return of handlePlayerAction after a log
Unguarded(actions) ==
  /\ Commit(actions)
  /\ UNCHANGED << scenario, battles, actionInProgress, releaseTimer, pc, closure, later,
                  seqLeft >>

\* case 'deploy'
DeployIntent ==
  \E i \in 1..Len(state.playerHand) :
    Guarded(deployCreature(state, state.playerHand[i]))

PlayerDeploy == Accepts /\ DeployIntent

\* case 'attack'
AttackIntent ==
  \E i \in 1..Len(state.playerField), j \in 1..Len(state.enemyField),
     o \in scenario.attackOutcomes :
    IF state.playerEnergy < ATTACK_ENERGY_COST
    THEN Unguarded(<< addToBattleLog("Not enough energy to attack") >>)
    ELSE Guarded(attackCreature(state, state.playerField[i], state.enemyField[j], o))

PlayerAttack == Accepts /\ AttackIntent

\* case 'useTool'
ToolIntent ==
  \E t \in 1..Len(state.playerTools), i \in 1..Len(state.playerField) :
    Guarded(useTool(state.playerTools[t], state.playerField[i], TRUE))

PlayerUseTool == Accepts /\ ToolIntent

\* case 'useSpell'
SpellIntent ==
  \E k \in 1..Len(state.playerSpells), i \in 1..Len(state.playerField),
     j \in 0..Len(state.enemyField) :
    Guarded(useSpell(state, state.playerSpells[k], state.playerField[i],
                     IF j = 0 THEN Null ELSE state.enemyField[j], TRUE))

PlayerUseSpell == Accepts /\ SpellIntent

\* case 'defend'
DefendIntent ==
  \E i \in 1..Len(state.playerField) :
    IF state.playerEnergy < DEFEND_ENERGY_COST
    THEN Unguarded(<< addToBattleLog("Not enough energy to defend") >>)
    ELSE Guarded(defendCreatureAction(state, state.playerField[i]))

PlayerDefend == Accepts /\ DefendIntent

\* an intent that arrives while the guard of handlePlayerAction fails: the
\* handler returns at once
IgnoredIntent ==
  /\ ~Accepts
  /\ UNCHANGED vars

\* the 300 ms timer of a player action
ReleaseGuard ==
  /\ releaseTimer
  /\ ~winPending
  /\ actionInProgress' = FALSE
  /\ releaseTimer' = FALSE
  /\ probe' = NoProbe
  /\ UNCHANGED << scenario, battles, state, winPending, pc, closure, later, snapE, seqLeft >>

(***************************************************************************)
(* The win-condition effect and onPlayAgain                                *)
(***************************************************************************)
\* checkWinCondition that does not look at the enemy's hand
WinIgnoresHand(s) ==
  Len(s.enemyField) = 0 /\ Len(s.enemyDeck) = 0

checkWinCondition(s) ==
  Len(s.enemyField) = 0 /\ Len(s.enemyHand) = 0 /\ Len(s.enemyDeck) = 0

\* checkLossCondition that does not look at the player's hand
LossIgnoresHand(s) ==
  Len(s.playerField) = 0 /\ Len(s.playerDeck) = 0

checkLossCondition(s) ==
  Len(s.playerField) = 0 /\ Len(s.playerHand) = 0 /\ Len(s.playerDeck) = 0

\* a play-again that starts the battle over without StartBattle
SetGameStateRestarts(gameState) ==
  [type |-> "SET_GAME_STATE",
   gameState |-> IF gameState = "setup" THEN "battle" ELSE gameState]

SetGameState(gameState) == [type |-> "SET_GAME_STATE", gameState |-> gameState]

\* the 100 ms timer of the win-condition effect
WinCheck ==
  /\ winPending
  /\ IF checkWinCondition(state)
     THEN /\ Commit(<< SetGameState("victory"), addToBattleLog("Victory") >>)
          /\ actionInProgress' = FALSE
     ELSE IF checkLossCondition(state)
     THEN /\ Commit(<< SetGameState("defeat"), addToBattleLog("Defeat") >>)
          /\ actionInProgress' = FALSE
     ELSE /\ state' = state /\ snapE' = snapE /\ winPending' = FALSE /\ probe' = NoProbe
          /\ UNCHANGED actionInProgress
  /\ UNCHANGED << scenario, battles, releaseTimer, pc, closure, later, seqLeft >>

onPlayAgain ==
  /\ state.gameState \in {"victory", "defeat"}
  /\ Commit(<< SetGameState("setup") >>)
  /\ UNCHANGED << scenario, battles, actionInProgress, releaseTimer, pc, closure, later,
                  seqLeft >>

(***************************************************************************)
(* The enemy-turn pipeline.  A callback reads the values of the render it  *)
(* was created in: handleEnemyTurn and the finishEnemyTurn it calls those  *)
(* of the render the turn was ended in, executeAIAction and its timer      *)
(* those of the last render that changed enemyEnergy, executeActionSequence*)
(* (no dependencies) those of the first render.  React commits the         *)
(* dispatches of one callback in one render.  The 100 ms win-condition     *)
(* timer runs out before any other.                                        *)
(***************************************************************************)
\* case 'endTurn'
EndTurnIntent ==
  /\ Commit(When(state.consecutiveActions.player >= 3,
                 << [type |-> "COMBO_BONUS", player |-> "player"],
                    addToBattleLog("You achieved a combo bonus") >>)
            \o << applyOngoingEffects >>
            \o applyEnergyDecay(state)
            \o << [type |-> "SET_ACTIVE_PLAYER", player |-> "enemy"],
                  addToBattleLog("Enemy's turn") >>)
  /\ actionInProgress' = TRUE
  /\ pc' = "endTurnTimer"
  /\ closure' = Snap(state)
  /\ later' = snapE
  /\ UNCHANGED << scenario, battles, releaseTimer, seqLeft >>

PlayerEndTurn == Accepts /\ EndTurnIntent

\* a timer callback that dispatches nothing
Idle ==
  /\ probe' = NoProbe
  /\ UNCHANGED << scenario, battles, state, releaseTimer, winPending, snapE >>

\* an end of the pipeline after which, when executeAIAction's timer has
\* finished the turn, a timer of finishEnemyTurn is still pending
PipelineOverLeavesTimer ==
  /\ pc' = IF pc = "aiNext" THEN "finishTimer" ELSE "none"
  /\ closure' = IF pc = "aiNext" THEN closure ELSE Null
  /\ later' = Null
  /\ seqLeft' = 0

PipelineOver ==
  /\ pc' = "none"
  /\ closure' = Null
  /\ later' = Null
  /\ seqLeft' = 0

\* the 750 ms timer of endTurn: processEnemyTurn()
EndTurnTimer ==
  /\ pc = "endTurnTimer"
  /\ ~winPending
  /\ state.turn < TurnCap \/ state.gameState # "battle"
  /\ Idle
  /\ IF closure.gameState = "battle"
     THEN pc' = "processTimer" /\ UNCHANGED << actionInProgress, closure, later, seqLeft >>
     ELSE actionInProgress' = FALSE /\ PipelineOver

\* handleEnemyTurn created in render cl, with executeAIAction created in lt
handleEnemyTurn(cl, lt) ==
  /\ actionInProgress' = TRUE
  /\ \/ \* aiAction.type === 'endTurn'
        /\ Idle
        /\ pc' = "finishTimer"
        /\ closure' = cl
        /\ UNCHANGED << later, seqLeft >>
     \/ \* an empty array: executeActionSequence finds index >= length
        /\ Idle
        /\ pc' = "finishTimer"
        /\ closure' = Render1
        /\ UNCHANGED << later, seqLeft >>
     \/ \* an array: executeActionSequence runs its first action
        \E aiAction \in AIChoices(cl) \cup {Descriptor("endTurn")} :
          /\ state.turn < TurnCap
          /\ Commit(executeSingleAIAction(aiAction, Render1.enemyEnergy))
          /\ pc' = "seqNext"
          /\ closure' = cl
          /\ seqLeft' = MaxSeqLen - 1
          /\ UNCHANGED << scenario, battles, releaseTimer, later >>
     \/ \* a single action: executeAIAction
        \E aiAction \in AIChoices(cl) :
          /\ state.turn < TurnCap
          /\ Commit(executeSingleAIAction(aiAction, lt.enemyEnergy))
          /\ pc' = "aiNext"
          /\ closure' = lt
          /\ UNCHANGED << scenario, battles, releaseTimer, later, seqLeft >>

\* the 750 ms timer of processEnemyTurn
ProcessTimer ==
  /\ pc = "processTimer"
  /\ ~winPending
  /\ IF closure.gameState = "battle"
     THEN handleEnemyTurn(closure, later)
     ELSE Idle /\ actionInProgress' = FALSE /\ PipelineOver

\* a finishEnemyTurn that does not call setActionInProgress(false)
FinishEnemyTurnKeepsGuard(cl) ==
  /\ Commit(finishEnemyTurn(cl, getDifficultySettings(scenario)))
  /\ UNCHANGED actionInProgress
  /\ PipelineOver
  /\ UNCHANGED << scenario, battles, releaseTimer >>

\* finishEnemyTurn created in render cl
FinishEnemyTurn(cl) ==
  /\ Commit(finishEnemyTurn(cl, getDifficultySettings(scenario)))
  /\ actionInProgress' = FALSE
  /\ PipelineOver
  /\ UNCHANGED << scenario, battles, releaseTimer >>

\* the 1000 ms timer of executeAIAction
AINextTimer ==
  /\ pc = "aiNext"
  /\ ~winPending
  /\ \E canMultiAction \in BOOLEAN :
       IF canMultiAction /\ closure.enemyEnergy >= 2
       THEN handleEnemyTurn(closure, later)
       ELSE FinishEnemyTurn(closure)

\* the 800 ms timer of executeActionSequence
SequenceTimer ==
  /\ pc = "seqNext"
  /\ ~winPending
  /\ \/ \* index >= actionSequence.length
        /\ Idle
        /\ pc' = "finishTimer"
        /\ closure' = Render1
        /\ UNCHANGED << actionInProgress, later, seqLeft >>
     \/ /\ seqLeft > 0
        /\ \E aiAction \in AIChoices(closure) \cup {Descriptor("endTurn")} :
             /\ Commit(executeSingleAIAction(aiAction, Render1.enemyEnergy))
             /\ seqLeft' = seqLeft - 1
             /\ UNCHANGED << scenario, battles, actionInProgress, releaseTimer, pc, closure,
                             later >>

\* the 500 ms timer of finishEnemyTurn
FinishTimer ==
  /\ pc = "finishTimer"
  /\ ~winPending
  /\ FinishEnemyTurn(closure)

Next ==
  \/ initializeBattle
  \/ PlayerDeploy
  \/ PlayerAttack
  \/ PlayerUseTool
  \/ PlayerUseSpell
  \/ PlayerDefend
  \/ PlayerEndTurn
  \/ IgnoredIntent
  \/ ReleaseGuard
  \/ WinCheck
  \/ onPlayAgain
  \/ EndTurnTimer
  \/ ProcessTimer
  \/ AINextTimer
  \/ SequenceTimer
  \/ FinishTimer

Spec == Init /\ [][Next]_vars

\* the battle of Skirmish
SkirmishSpec == SkirmishInit /\ [][Next]_vars

\* the battle with its timers running out: the 100 ms timer of the
\* win-condition effect, once set and not cleared, fires
LiveSpec == Init /\ [][Next]_vars /\ WF_vars(WinCheck)

\* the timer of executeAIAction when Math.random() is not below
\* multiActionChance, or the energy it reads is below 2: the else branch
ContinuationDrawFails ==
  /\ pc = "aiNext"
  /\ ~winPending
  /\ FinishEnemyTurn(closure)

\* every setTimeout that has been set runs out; of the draws of
\* executeAIAction's timer, made again and again, one fails
TimerFairness ==
  /\ WF_vars(WinCheck)
  /\ WF_vars(ReleaseGuard)
  /\ WF_vars(EndTurnTimer)
  /\ WF_vars(ProcessTimer)
  /\ WF_vars(SequenceTimer)
  /\ WF_vars(FinishTimer)
  /\ SF_vars(ContinuationDrawFails)

\* the battle of Duel with all its timers running out
DuelInit == Init /\ scenario = Duel

TimerSpec == DuelInit /\ [][Next]_vars /\ TimerFairness

(***************************************************************************)
(* The reducer called on its own: any action of its contract, on any state *)
(* a battle reaches.  probe keeps the action and what the reducer returns; *)
(* the state of the battle is left as it is.                               *)
(***************************************************************************)
Elems(arr) == {arr[i] : i \in 1..Len(arr)}

\* costs a deploy may declare: none, a cheap one, a dear one
DeclaredCosts == {Undefined, 2, 12}

DeployActions(s) ==
  { [type |-> "DEPLOY_CREATURE", creature |-> c, energyCost |-> k] :
      c \in Elems(s.playerHand) \cup Elems(s.playerField), k \in DeclaredCosts }
  \cup
  { [type |-> "ENEMY_DEPLOY_CREATURE", creature |-> c, energyCost |-> k] :
      c \in Elems(s.enemyHand) \cup Elems(s.enemyField), k \in DeclaredCosts }

UpdateActions(s) ==
  { [type |-> "UPDATE_CREATURE", creature |-> [c EXCEPT !.currentHealth = h],
     isPlayer |-> TRUE] : c \in Elems(s.playerField), h \in {0, MaxHealth} }
  \cup
  { [type |-> "UPDATE_CREATURE", creature |-> [c EXCEPT !.currentHealth = h],
     isPlayer |-> FALSE] : c \in Elems(s.enemyField), h \in {0, MaxHealth} }

AttackActions(s) ==
  { [type |-> "ATTACK", attackResult |-> processAttack(a, d, o),
     energyCost |-> ATTACK_ENERGY_COST] :
      a \in Elems(s.playerField), d \in Elems(s.enemyField), o \in scenario.attackOutcomes }
  \cup
  { [type |-> "ATTACK", attackResult |-> processAttack(a, d, o),
     energyCost |-> ATTACK_ENERGY_COST] :
      a \in Elems(s.enemyField), d \in Elems(s.playerField), o \in scenario.attackOutcomes }
  \cup
  \* an attacker that is on neither field: a creature of the player's hand
  { [type |-> "ATTACK", attackResult |-> processAttack(a, d, o),
     energyCost |-> ATTACK_ENERGY_COST] :
      a \in Elems(s.playerHand), d \in Elems(s.enemyField), o \in scenario.attackOutcomes }

\* a tool that harms its target
Dart == Item("T9", 0 - MaxHealth, Null, FALSE)

ToolResults(s, tool) ==
  {Null, [updatedCreature |-> Null, toolEffect |-> Null]}
  \cup {applyTool(c, tool) : c \in Elems(s.playerField)}

ToolActions(s) ==
  UNION { { [type |-> "USE_TOOL", result |-> r, tool |-> tool, isPlayerTool |-> TRUE,
             isEnemyTool |-> FALSE] : r \in ToolResults(s, tool) } :
          tool \in Elems(s.playerTools) }
  \cup
  { [type |-> "USE_TOOL", result |-> applyTool(c, Dart), tool |-> Dart,
     isPlayerTool |-> FALSE, isEnemyTool |-> TRUE] : c \in Elems(s.playerField) }
  \cup
  \* the enemy's tools, as executeSingleAIAction dispatches them
  { [type |-> "USE_TOOL", result |-> applyTool(c, tool), tool |-> tool,
     isPlayerTool |-> FALSE, isEnemyTool |-> TRUE] :
      tool \in Elems(s.enemyTools), c \in Elems(s.enemyField) \cup Elems(s.playerField) }

SpellResults(s, spell) ==
  {Null}
  \cup {[updatedCaster |-> Null, updatedTarget |-> c, spellEffect |-> Null] :
          c \in Elems(s.enemyField)}
  \cup {[updatedCaster |-> c, updatedTarget |-> Null, spellEffect |-> Null] :
          c \in Elems(s.playerField)}
  \cup {applySpell(c, t, spell) : c \in Elems(s.playerField), t \in Elems(s.enemyField)}

SpellActions(s) ==
  UNION { { [type |-> "USE_SPELL", spellResult |-> r, spell |-> spell, energyCost |-> k,
             isEnemySpell |-> FALSE] :
              r \in SpellResults(s, spell), k \in {Undefined, SPELL_ENERGY_COST} } :
          spell \in Elems(s.playerSpells) }
  \cup
  { [type |-> "USE_SPELL", spellResult |-> applySpell(c, t, spell), spell |-> spell,
     energyCost |-> SPELL_ENERGY_COST, isEnemySpell |-> TRUE] :
      spell \in Elems(s.enemySpells), c \in Elems(s.enemyField), t \in Elems(s.playerField) }

DefendActions(s) ==
  { [type |-> "DEFEND", updatedCreature |-> defendCreature(c)] :
      c \in Elems(s.playerField) \cup Elems(s.enemyField) }

PlainActions ==
  { [type |-> "SPEND_ENERGY", player |-> p, amount |-> n] :
      p \in {"player", "enemy"}, n \in {1, 2 * MAX_ENERGY} }
  \cup { [type |-> "DRAW_CARD", player |-> p] : p \in {"player", "enemy"} }
  \cup { [type |-> "REGENERATE_ENERGY", playerRegen |-> 3, enemyRegen |-> 4],
         [type |-> "REGENERATE_ENERGY", playerRegen |-> 5, enemyRegen |-> 3] }
  \cup { [type |-> "APPLY_ENERGY_DECAY"], [type |-> "INCREMENT_TURN"],
         [type |-> "ADD_LOG", message |-> "message"], [type |-> "UNKNOWN"] }
  \cup { [type |-> "SET_ACTIVE_PLAYER", player |-> p] : p \in {"player", "enemy"} }
  \cup { [type |-> "SET_GAME_STATE", gameState |-> g] :
           g \in {"setup", "battle", "victory", "defeat"} }
  \cup { [type |-> "COMBO_BONUS", player |-> p] : p \in {"player", "enemy"} }
  \cup { [type |-> "APPLY_ONGOING_EFFECTS", updatedPlayerField |-> Null,
          updatedEnemyField |-> Null] }

\* descriptors for EXECUTE_AI_ACTION and EXECUTE_AI_ACTION_SEQUENCE: the moves
\* of the AI on state s, with and without a declared cost, and its deploys at
\* each declared cost
Descriptors(s) ==
  AIMoves(s) \cup {[aiAction EXCEPT !.energyCost = Undefined] : aiAction \in AIMoves(s)}
  \cup { [aiAction EXCEPT !.energyCost = k] :
           aiAction \in {d \in AIMoves(s) : d.type = "deploy"}, k \in DeclaredCosts }

\* the deployment of a creature that is on the enemy's field already
Redeploys(s) ==
  { [Descriptor("deploy") EXCEPT !.creature = c, !.energyCost = 2] : c \in Elems(s.enemyField) }

AIActions(s) ==
  { [type |-> "EXECUTE_AI_ACTION", aiAction |-> aiAction] : aiAction \in Descriptors(s) }
  \cup
  { [type |-> "EXECUTE_AI_ACTION_SEQUENCE", actionSequence |-> << first, second >>] :
      first \in {aiAction \in Descriptors(s) : aiAction.type = "deploy"} \cup Redeploys(s),
      second \in AIMoves(s) \cup Redeploys(s) }

ReducerActions(s) ==
  {StartBattleAction} \cup DeployActions(s) \cup UpdateActions(s) \cup AttackActions(s)
  \cup ToolActions(s) \cup SpellActions(s) \cup DefendActions(s) \cup PlainActions
  \cup AIActions(s)

ReducerCall ==
  /\ probe = NoProbe
  /\ \E action \in ReducerActions(state) :
       probe' = [action |-> action, result |-> battleReducer(state, action)]
  /\ UNCHANGED << scenario, state, actionInProgress, releaseTimer, winPending, pc, closure,
                  later, snapE, seqLeft, battles >>

ReducerInit == Init /\ scenario \in {Duel, Melee}

\* the battle runs on from a state no call has been made on
ReducerNext == (probe = NoProbe /\ Next) \/ ReducerCall

ReducerSpec == ReducerInit /\ [][ReducerNext]_vars

(***************************************************************************)
(* One pass of APPLY_ONGOING_EFFECTS over a field whose creature carries   *)
(* effects: the battle of Duel with the creature of one side on its field, *)
(* at any health, with any list of up to MaxEffects effects that           *)
(* applyTool and applySpell may have left on it.                           *)
(***************************************************************************)
\* the maxHealth of the creature that carries the effects
EffectMaxHealth == 7
MaxEffects == 2

\* an effect of one tick that takes 5 health and lowers physicalAttack for
\* good (battleStats has no speed)
Curse ==
  [ name |-> "curse", duration |-> 1, healthEffect |-> 0 - 5,
    statEffect |-> [physicalAttack |-> 0 - 1, speed |-> 1] ]

\* an effect of one tick that heals 5
Regrowth == [name |-> "regrowth", duration |-> 1, healthEffect |-> 5, statEffect |-> Null]

\* the lists of effects a creature may carry (Null: an entry that is missing)
EffectLists ==
  UNION { [1..n -> {Curse, Poison, Regrowth, Null}] : n \in 0..MaxEffects }

Carrier(creature, health, effects) ==
  [creature EXCEPT !.battleStats.maxHealth = EffectMaxHealth,
                   !.currentHealth = health,
                   !.activeEffects = effects]

EffectInit ==
  /\ scenario = Duel
  /\ \E side \in {"player", "enemy"}, health \in 1..EffectMaxHealth, effects \in EffectLists,
        isDefending \in BOOLEAN :
       LET started == battleReducer(initialState, StartBattleAction)
           carrier == [Carrier(IF side = "player" THEN started.playerHand[1]
                               ELSE started.enemyHand[1], health, effects)
                         EXCEPT !.isDefending = isDefending]
       IN  state = [started EXCEPT
                      !.playerHand = <<>>,
                      !.enemyHand = <<>>,
                      !.playerField = << IF side = "player" THEN carrier
                                         ELSE started.playerHand[1] >>,
                      !.enemyField = << IF side = "enemy" THEN carrier
                                        ELSE started.enemyHand[1] >>]
  /\ actionInProgress = FALSE
  /\ releaseTimer = FALSE
  /\ winPending = FALSE
  /\ pc = "none"
  /\ closure = Null
  /\ later = Null
  /\ snapE = Render1
  /\ seqLeft = 0
  /\ battles = 1
  /\ probe = NoProbe

\* dispatch({ type: ACTIONS.APPLY_ONGOING_EFFECTS, addLog: addToBattleLog })
EffectPass ==
  /\ probe = NoProbe
  /\ probe' = [action |-> applyOngoingEffects,
               result |-> battleReducer(state, applyOngoingEffects)]
  /\ UNCHANGED << scenario, state, actionInProgress, releaseTimer, winPending, pc, closure,
                  later, snapE, seqLeft, battles >>

EffectSpec == EffectInit /\ [][EffectPass]_vars

(***************************************************************************)
(* The lifetime of an effect: the battle of Duel with the creature of each *)
(* side on its field, one of them under an effect of any duration up to    *)
(* MaxDuration that changes one of its attack stats, alone or after a      *)
(* poison; APPLY_ONGOING_EFFECTS is dispatched again and again.  closure   *)
(* keeps the render in which the effect was laid on the creature.          *)
(***************************************************************************)
MaxDuration == 3

Deltas == {0 - 2, 0 - 1, 1, 2}

Boon(duration, stat, v) ==
  [ name |-> "boon", duration |-> duration, healthEffect |-> 0,
    statEffect |-> IF stat = "physicalAttack" THEN [physicalAttack |-> v]
                   ELSE [magicalAttack |-> v] ]

LifetimeInit ==
  /\ scenario = Duel
  /\ \E side \in {"player", "enemy"}, health \in {1, EffectMaxHealth},
        duration \in 1..MaxDuration, stat \in {"physicalAttack", "magicalAttack"},
        v \in Deltas, poisoned \in BOOLEAN :
       LET started == battleReducer(initialState, StartBattleAction)
           effects == IF poisoned THEN << Poison, Boon(duration, stat, v) >>
                      ELSE << Boon(duration, stat, v) >>
       IN  state = [started EXCEPT
                      !.battleLog = <<>>,
                      !.playerHand = <<>>,
                      !.enemyHand = <<>>,
                      !.playerField = << IF side = "player"
                                         THEN Carrier(started.playerHand[1], health, effects)
                                         ELSE started.playerHand[1] >>,
                      !.enemyField = << IF side = "enemy"
                                        THEN Carrier(started.enemyHand[1], health, effects)
                                        ELSE started.enemyHand[1] >>]
  /\ closure = state
  /\ actionInProgress = FALSE
  /\ releaseTimer = FALSE
  /\ winPending = FALSE
  /\ pc = "none"
  /\ later = Null
  /\ snapE = Render1
  /\ seqLeft = 0
  /\ battles = 1
  /\ probe = NoProbe

\* applyOngoingEffects()
LifetimePass ==
  /\ Commit(<< applyOngoingEffects >>)
  /\ UNCHANGED << scenario, actionInProgress, releaseTimer, pc, closure, later, seqLeft,
                  battles >>

LifetimeSpec == LifetimeInit /\ [][LifetimePass]_vars

(***************************************************************************)
(* A player's attack from the state START_BATTLE leaves (both energies 10, *)
(* no streak, no momentum), with creatures of the opening hands on the two *)
(* fields, in any of the turns AttackTurns.                                *)
(***************************************************************************)
\* the last turn a player's attack is tried in
MaxAttackTurn == 5

\* the first turn in which creatures are on both fields is turn 2
AttackTurns == 2..MaxAttackTurn

AttackInit ==
  /\ scenario \in {Duel, Melee}
  /\ \E turn \in AttackTurns :
     LET started == battleReducer(initialState, StartBattleAction)
     IN  \E k \in 1..Len(started.playerHand), m \in 1..Len(started.enemyHand) :
           state = [started EXCEPT
                      !.turn = turn,
                      !.playerField = SubSeq(started.playerHand, 1, k),
                      !.playerHand = SubSeq(started.playerHand, k + 1, Len(started.playerHand)),
                      !.enemyField = SubSeq(started.enemyHand, 1, m),
                      !.enemyHand = SubSeq(started.enemyHand, m + 1, Len(started.enemyHand))]
  /\ actionInProgress = FALSE
  /\ releaseTimer = FALSE
  /\ winPending = FALSE
  /\ pc = "none"
  /\ closure = Null
  /\ later = Null
  /\ snapE = Render1
  /\ seqLeft = 0
  /\ battles = 1
  /\ probe = NoProbe

\* handlePlayerAction 'attack' and the attackCreature it calls: probe keeps the
\* ATTACK dispatched and the state after the callback's dispatches
AttackCall ==
  /\ probe = NoProbe
  /\ Accepts
  /\ state.playerEnergy >= ATTACK_ENERGY_COST
  /\ \E i \in 1..Len(state.playerField), j \in 1..Len(state.enemyField),
        o \in scenario.attackOutcomes :
       LET dispatched == attackCreature(state, state.playerField[i], state.enemyField[j], o)
       IN  probe' = [action |-> dispatched[1], result |-> Settle(state, dispatched, 1, 0)]
  /\ UNCHANGED << scenario, state, actionInProgress, releaseTimer, winPending, pc, closure,
                  later, snapE, seqLeft, battles >>

AttackSpec == AttackInit /\ [][AttackCall]_vars

(***************************************************************************)
(* A draw from the decks initializeBattle deals: rosters of up to          *)
(* MaxRoster creatures a side, of which the player's opening hand takes 3  *)
(* and the enemy's the difficulty's initialHandSize.                       *)
(***************************************************************************)
\* the most creatures a side brings
MaxRoster == 6

RosterIds ==
  [ player |-> << "P1", "P2", "P3", "P4", "P5", "P6", "P7", "P8" >>,
    enemy |-> << "E1", "E2", "E3", "E4", "E5", "E6", "E7", "E8" >> ]

Roster(side, n) == [i \in 1..n |-> BattleCreature(RosterIds[side][i], 0, 0)]

\* a battle of n creatures against m, with an enemy's opening hand of h
Stack(n, m, h) ==
  [ creatureNfts |-> Roster("player", n),
    toolNfts |-> << >>,
    spellNfts |-> << >>,
    enemyCreatures |-> Roster("enemy", m),
    enemyItems |-> [tools |-> << >>, spells |-> << >>],
    settings |-> [enemyDeckSize |-> m, initialHandSize |-> h, enemyEnergyRegen |-> 3],
    attackOutcomes |-> { [damage |-> 1, recoil |-> 0] },
    aiMoves |-> {"deploy", "attack", "defend"},
    aiDeployCost |-> Undefined ]

\* the battle as initializeBattle leaves it
DrawInit ==
  /\ scenario \in {Stack(n, m, h) : n \in 1..MaxRoster, m \in 1..MaxRoster, h \in 1..3}
  /\ state = Trim(Settle(initialState, << StartBattleAction, addToBattleLog("Your turn") >>, 1, 0))
  /\ actionInProgress = FALSE
  /\ releaseTimer = FALSE
  /\ winPending = FALSE
  /\ pc = "none"
  /\ closure = Null
  /\ later = Null
  /\ snapE = Render1
  /\ seqLeft = 0
  /\ battles = 1
  /\ probe = NoProbe

\* dispatch({ type: ACTIONS.DRAW_CARD, player })
DrawCall ==
  /\ probe = NoProbe
  /\ \E player \in {"player", "enemy"} :
       LET action == [type |-> "DRAW_CARD", player |-> player]
       IN  probe' = [action |-> action, result |-> battleReducer(state, action)]
  /\ UNCHANGED << scenario, state, actionInProgress, releaseTimer, winPending, pc, closure,
                  later, snapE, seqLeft, battles >>

DrawSpec == DrawInit /\ [][DrawCall]_vars

(***************************************************************************)
(* Properties of a battle run by the component (Spec)                      *)
(***************************************************************************)
\* C1: in every state a battle reaches through the actions the component
\* dispatches (player intents, AI actions, end-turn phases), playerEnergy and
\* enemyEnergy both lie between 0 and MAX_ENERGY.
C1_EnergyWithinBounds ==
  /\ state.playerEnergy \in 0..MAX_ENERGY
  /\ state.enemyEnergy \in 0..MAX_ENERGY

\* the enemy's regeneration of 10 + 6 has been capped, and the player has
\* spent all its energy
C1_CappedAndSpent ==
  /\ scenario = Duel
  /\ state.turn = 2
  /\ state.enemyEnergy = MAX_ENERGY
  /\ state.playerEnergy = 0

\* C2: in every reachable state neither playerField nor enemyField holds
\* more than 4 creatures, whatever the player and the AI deploy.
C2_FieldsHoldAtMostFour ==
  /\ Len(state.playerField) <= maxPlayerFieldSize
  /\ Len(state.enemyField) <= maxPlayerFieldSize

\* C4: in every reachable state a creature id appears in at most one of a
\* side's deck, hand and field, and only once in it: deploy and draw move a
\* creature, they never copy it.
C4_OneContainerPerCreature ==
  /\ LET all == state.playerDeck \o state.playerHand \o state.playerField
     IN  \A i, j \in 1..Len(all) : all[i].id = all[j].id => i = j
  /\ LET all == state.enemyDeck \o state.enemyHand \o state.enemyField
     IN  \A i, j \in 1..Len(all) : all[i].id = all[j].id => i = j

\* the player has deployed two creatures and both sides have drawn the
\* creature of their deck
C4_DeployedAndDrawn ==
  /\ scenario = Melee
  /\ state.gameState = "battle"
  /\ Len(state.playerField) = 2 /\ Some(state.playerHand, "P4")
  /\ Len(state.playerDeck) = 0
  /\ Some(state.enemyHand, "E3") /\ Len(state.enemyDeck) = 0

\* C9: at each end-turn decay step, of the player's end turn and of the AI's,
\* decay is subtracted only from a side whose energy exceeds 10: a side with
\* energy <= 10 keeps its energy through that step, whatever the other
\* side's energy.  The player's end turn changes the energies through its
\* decay step only; the decay step of the AI's end turn is the dispatch of
\* applyEnergyDecay by the finishEnemyTurn the pending timer calls.
C9_DecayOnlyAboveTen ==
  /\ [][(pc = "none" /\ pc' = "endTurnTimer")
          => /\ (state.playerEnergy <= 10 => state'.playerEnergy = state.playerEnergy)
             /\ (state.enemyEnergy <= 10 => state'.enemyEnergy = state.enemyEnergy)]_vars
  /\ [](pc = "finishTimer"
          => LET decayed == Settle(state, applyEnergyDecay(closure), 1, 0)
             IN  /\ (state.playerEnergy <= 10 => decayed.playerEnergy = state.playerEnergy)
                 /\ (state.enemyEnergy <= 10 => decayed.enemyEnergy = state.enemyEnergy))

\* C11: on every state a battle reaches, a ComboBonus(side) check on a streak
\* of 3 or more of that side adds exactly 2 to physicalAttack and 2 to
\* magicalAttack of every creature of the side's field and changes nothing
\* else; on a streak below 3 it returns the state unchanged.
C11_ComboBonusAddsTwo ==
  \A side \in {"player", "enemy"} :
    LET field == IF side = "player" THEN "playerField" ELSE "enemyField"
        after == battleReducer(state, [type |-> "COMBO_BONUS", player |-> side])
    IN  IF state.consecutiveActions[side] >= 3
        THEN /\ Len(after[field]) = Len(state[field])
             /\ \A i \in 1..Len(state[field]) :
                  after[field][i] =
                    [state[field][i] EXCEPT
                       !.battleStats.physicalAttack = state[field][i].battleStats.physicalAttack + 2,
                       !.battleStats.magicalAttack = state[field][i].battleStats.magicalAttack + 2]
             /\ [after EXCEPT ![field] = state[field]] = state
        ELSE after = state

\* the player has ended a turn of three successful actions, and the creature
\* of its field holds the bonus
C11_PlayerHoldsBonus ==
  /\ pc = "endTurnTimer"
  /\ Len(state.playerField) > 0
  /\ state.playerField[1].battleStats.physicalAttack = 5
  /\ state.playerField[1].battleStats.magicalAttack = 4

\* C12: from every state a battle reaches, SetActivePlayer(side) yields a
\* state whose activePlayer is side and whose two streak counters read 0, all
\* other components being unchanged.
C12_SetActivePlayerResetsStreaks ==
  \A side \in {"player", "enemy"} :
    LET after == battleReducer(state, [type |-> "SET_ACTIVE_PLAYER", player |-> side])
    IN  /\ after.activePlayer = side
        /\ after.consecutiveActions.player = 0
        /\ after.consecutiveActions.enemy = 0
        /\ [after EXCEPT !.activePlayer = state.activePlayer,
                         !.consecutiveActions = state.consecutiveActions] = state

\* the player has ended a turn in which it spent energy on successful actions:
\* the enemy is active and the player's streak is gone
C12_TurnHandedOver ==
  /\ pc = "endTurnTimer"
  /\ state.activePlayer = "enemy"
  /\ state.energyMomentum.player > 0
  /\ state.consecutiveActions = [player |-> 0, enemy |-> 0]

\* C15, as claimed: whenever the win-condition timer runs out in battle with
\* the player's field, hand and deck all empty, gameState becomes defeat; and
\* gameState becomes defeat in no other step.  (A step with winPending before
\* and not after is the running out of the timer.)
C15_DefeatIffPlayerIsOut ==
  [][ /\ ( /\ winPending /\ ~winPending' /\ state.gameState = "battle"
           /\ Len(state.playerField) = 0 /\ Len(state.playerHand) = 0
           /\ Len(state.playerDeck) = 0 )
         => state'.gameState = "defeat"
      /\ ( state.gameState # "defeat" /\ state'.gameState = "defeat" )
         => ( /\ winPending /\ ~winPending' /\ state.gameState = "battle"
              /\ Len(state.playerField) = 0 /\ Len(state.playerHand) = 0
              /\ Len(state.playerDeck) = 0 ) ]_vars

\* C15, amended: whenever the win-condition timer runs out in battle with the
\* player's three containers empty, gameState becomes defeat if one of the
\* enemy's three containers is not empty, and victory if they are empty too;
\* and gameState becomes defeat in no other step.
C15_DefeatUnlessEnemyIsOutToo ==
  [][ /\ ( /\ winPending /\ ~winPending' /\ state.gameState = "battle"
           /\ Len(state.playerField) = 0 /\ Len(state.playerHand) = 0
           /\ Len(state.playerDeck) = 0 )
         => IF Len(state.enemyField) = 0 /\ Len(state.enemyHand) = 0
               /\ Len(state.enemyDeck) = 0
            THEN state'.gameState = "victory"
            ELSE state'.gameState = "defeat"
      /\ ( state.gameState # "defeat" /\ state'.gameState = "defeat" )
         => ( /\ winPending /\ ~winPending' /\ state.gameState = "battle"
              /\ Len(state.playerField) = 0 /\ Len(state.playerHand) = 0
              /\ Len(state.playerDeck) = 0
              /\ ~( Len(state.enemyField) = 0 /\ Len(state.enemyHand) = 0
                    /\ Len(state.enemyDeck) = 0 ) ) ]_vars

\* defeat has been declared: the player has no creature left, the enemy has
C15_DefeatDeclared ==
  /\ state.gameState = "defeat"
  /\ Len(state.playerField) = 0 /\ Len(state.playerHand) = 0 /\ Len(state.playerDeck) = 0
  /\ Len(state.enemyField) + Len(state.enemyHand) + Len(state.enemyDeck) > 0
  /\ ~winPending

\* C17: in a step taken while actionInProgress is held, or while activePlayer
\* is not player, or while gameState is not battle, nothing of what a player
\* intent does (deploy, attack, useTool, useSpell, defend, endTurn) happens:
\* no dispatch of it is reduced, no guard of it is taken, no timer of it is
\* set, whether the intent arrives in that state or arrived before.
C17_GuardRejectsIntents ==
  [][ (actionInProgress \/ state.activePlayer # "player" \/ state.gameState # "battle")
        => ~( DeployIntent \/ AttackIntent \/ ToolIntent \/ SpellIntent \/ DefendIntent
              \/ EndTurnIntent ) ]_vars

\* in the 300 ms after an action of the player, with creatures on both
\* fields and the energy for an attack: an intent that arrives is ignored
C17_IntentsHeldOff ==
  /\ actionInProgress /\ releaseTimer
  /\ state.gameState = "battle" /\ state.activePlayer = "player"
  /\ Len(state.playerField) > 0 /\ Len(state.enemyField) > 0
  /\ state.playerEnergy >= ATTACK_ENERGY_COST
  /\ ~Accepts

\* C18: once gameState has left battle while a continuation of the enemy's
\* turn is scheduled, no step changes the fields, hands, decks, energies,
\* turn, activePlayer, streaks or log: state changes in gameState at most
\* (onPlayAgain).
C18_ContinuationsStopAfterBattle ==
  [][ (state.gameState # "battle" /\ pc # "none")
        => [state' EXCEPT !.gameState = state.gameState] = state ]_vars

\* C19: from the acceptance of the player's endTurn until the enemy's
\* end-turn phase has made the player active again (the span in which a timer
\* of the enemy's turn is pending) actionInProgress stays held and no step
\* does what a player intent does; and no timer of the AI's actions runs
\* while activePlayer is player.
C19_TurnPhasesDoNotInterleave ==
  /\ [](pc # "none" => actionInProgress)
  /\ [][pc # "none"
          => ~( DeployIntent \/ AttackIntent \/ ToolIntent \/ SpellIntent \/ DefendIntent
                \/ EndTurnIntent )]_vars
  /\ [][state.activePlayer = "player"
          => ~(ProcessTimer \/ AINextTimer \/ SequenceTimer)]_vars

\* every creature of the field after is a creature of the field before with
\* +2 physical and +2 magical attack
GainedCombo(before, after) ==
  \A i \in 1..Len(after) :
    \E j \in 1..Len(before) :
      /\ before[j].id = after[i].id
      /\ after[i].battleStats.physicalAttack = before[j].battleStats.physicalAttack + 2
      /\ after[i].battleStats.magicalAttack = before[j].battleStats.magicalAttack + 2

\* the step in which finishEnemyTurn runs
EnemyTurnFinishes == pc \in {"aiNext", "finishTimer"} /\ pc' = "none"

\* the step in which the player's endTurn runs
PlayerTurnEnds == pc = "none" /\ pc' = "endTurnTimer"

\* C29: the player's combo check runs in endTurn, before the turn passes: a
\* streak of 3 or more gives every creature of the player's field +2/+2.
C29_PlayerComboBonusApplied ==
  [][(PlayerTurnEnds /\ state.consecutiveActions.player >= 3)
       => GainedCombo(state.playerField, state'.playerField)]_vars

\* C29: the enemy's combo check runs at the end of the enemy's turn with the
\* streak of that turn: when the enemy has made 3 or more successful actions
\* in its turn, finishEnemyTurn gives every creature of the enemy's field
\* +2 physical and +2 magical attack.
C29_EnemyComboBonusApplied ==
  [][(EnemyTurnFinishes /\ state.consecutiveActions.enemy >= 3)
       => GainedCombo(state.enemyField, state'.enemyField)]_vars

\* the changes of gameState the component makes
GameStateSteps ==
  { << "setup", "battle" >>, << "battle", "victory" >>, << "battle", "defeat" >>,
    << "victory", "setup" >>, << "defeat", "setup" >> }

\* C31: gameState changes only from setup to battle (by StartBattle, which
\* starts a new battle), from battle to victory or to defeat, and from
\* victory or defeat to setup; so victory and defeat are never entered from
\* setup, never change into each other, and battle is entered by StartBattle
\* only.
C31_GameStateTransitions ==
  [][state'.gameState # state.gameState
       => /\ << state.gameState, state'.gameState >> \in GameStateSteps
          /\ state'.gameState = "battle"
               => /\ battles' = battles + 1
                  /\ state'.turn = 1
                  /\ state'.playerField = << >> /\ state'.enemyField = << >>]_vars

\* a battle has been played to its end and left by play again
C31_BackInSetup ==
  /\ state.gameState = "setup"
  /\ battles = 1
  /\ Len(state.battleLog) > 0

IdsOf(arr) == {arr[i].id : i \in 1..Len(arr)}

FieldIds(s) == IdsOf(s.playerField) \cup IdsOf(s.enemyField)

\* the ids of the creatures of every deck, hand and field
PresentIds(s) ==
  IdsOf(s.playerDeck) \cup IdsOf(s.playerHand) \cup IdsOf(s.enemyDeck)
    \cup IdsOf(s.enemyHand) \cup FieldIds(s)

\* C32: within a battle, a creature that leaves a field (removed for
\* currentHealth <= 0) is in no deck, hand or field afterwards, and a
\* creature that is in none of them never comes back.
C32_RemovalIsPermanent ==
  [][battles' = battles
       => /\ (FieldIds(state) \ FieldIds(state')) \cap PresentIds(state') = {}
          /\ PresentIds(state') \subseteq PresentIds(state)]_vars

\* the battle goes on into the enemy's turn after a creature of each side
\* has died
C32_BattleGoesOnAfterDeaths ==
  /\ state.gameState = "battle"
  /\ pc # "none"
  /\ \E i \in 1..Len(scenario.creatureNfts) :
       scenario.creatureNfts[i].id \notin PresentIds(state)
  /\ \E i \in 1..Len(scenario.enemyCreatures) :
       scenario.enemyCreatures[i].id \notin PresentIds(state)

(***************************************************************************)
(* Properties of a battle whose timers run out (LiveSpec)                  *)
(***************************************************************************)
\* C14: while gameState is battle, the enemy's field, hand and deck all
\* being empty leads to gameState victory; and gameState goes from battle to
\* victory only when the three are empty.
C14_VictoryWhenEnemyIsOut ==
  /\ ( /\ state.gameState = "battle"
       /\ Len(state.enemyField) = 0 /\ Len(state.enemyHand) = 0 /\ Len(state.enemyDeck) = 0 )
     ~> (state.gameState = "victory")
  /\ [][(state.gameState = "battle" /\ state'.gameState = "victory")
          => ( Len(state.enemyField) = 0 /\ Len(state.enemyHand) = 0
               /\ Len(state.enemyDeck) = 0 )]_vars

\* victory has been declared over an enemy without creatures
C14_VictoryDeclared ==
  /\ state.gameState = "victory"
  /\ Len(state.enemyField) = 0 /\ Len(state.enemyHand) = 0 /\ Len(state.enemyDeck) = 0
  /\ ~winPending

(***************************************************************************)
(* Properties of the reducer (ReducerSpec): state is the state the reducer *)
(* was called on, probe.action the action and probe.result what it         *)
(* returned                                                                *)
(***************************************************************************)
\* C3: after an Attack, UseTool, UseSpell, Defend, UpdateCreature,
\* ApplyOngoingEffects, ExecuteAIAction or ExecuteAIActionSequence
\* transition no creature with currentHealth <= 0 is left in playerField or
\* enemyField.
C3_NoDeadCreatureOnField ==
  ( /\ probe.action # Null
    /\ probe.action.type \in {"ATTACK", "USE_TOOL", "USE_SPELL", "DEFEND", "UPDATE_CREATURE",
                              "APPLY_ONGOING_EFFECTS", "EXECUTE_AI_ACTION",
                              "EXECUTE_AI_ACTION_SEQUENCE"}
    /\ probe.result # TypeError )
  => /\ \A i \in 1..Len(probe.result.playerField) : probe.result.playerField[i].currentHealth > 0
     /\ \A i \in 1..Len(probe.result.enemyField) : probe.result.enemyField[i].currentHealth > 0

C6_DeployBelowCostChangesNothing ==
  /\ ( /\ probe.action # Null
       /\ probe.action.type = "DEPLOY_CREATURE"
       /\ state.playerEnergy < OrElse(probe.action.energyCost,
                                      probe.action.creature.battleStats.energyCost) )
     => probe.result = state
  /\ ( /\ probe.action # Null
       /\ probe.action.type = "ENEMY_DEPLOY_CREATURE"
       /\ state.enemyEnergy < OrElse(probe.action.energyCost,
                                     probe.action.creature.battleStats.energyCost) )
     => probe.result = state
  /\ ( /\ probe.action # Null
       /\ probe.action.type = "EXECUTE_AI_ACTION"
       /\ probe.action.aiAction.type = "deploy"
       /\ state.enemyEnergy < OrElse(probe.action.aiAction.energyCost, 3) )
     => probe.result = state

\* the player, left with 5 energy, tries to deploy a creature that costs 6
C6_PlayerDeployRejected ==
  /\ probe.action # Null
  /\ probe.action.type = "DEPLOY_CREATURE"
  /\ probe.action.energyCost = Undefined
  /\ probe.action.creature.battleStats.energyCost = 6
  /\ state.playerEnergy = 5
  /\ probe.result = state

\* C7: an Attack, UseSpell or Defend dispatched when the energy of the acting
\* side (the side whose field holds the attacker, the caster, the defending
\* creature; the enemy otherwise) is below the action's cost is rejected: the
\* reducer returns the state unchanged, for the player and for the enemy.
C7_ActionBelowCostRejected ==
  /\ ( /\ probe.action # Null
       /\ probe.action.type = "ATTACK"
       /\ IF Some(state.playerField, probe.action.attackResult.updatedAttacker.id)
          THEN state.playerEnergy < probe.action.energyCost
          ELSE state.enemyEnergy < probe.action.energyCost )
     => probe.result = state
  /\ ( /\ probe.action # Null
       /\ probe.action.type = "USE_SPELL"
       /\ probe.action.spellResult # Null
       /\ probe.action.spellResult.updatedCaster # Null
       /\ probe.action.spellResult.updatedTarget # Null
       /\ IF Some(state.playerField, probe.action.spellResult.updatedCaster.id)
          THEN state.playerEnergy < OrElse(probe.action.energyCost, SPELL_ENERGY_COST)
          ELSE state.enemyEnergy < OrElse(probe.action.energyCost, SPELL_ENERGY_COST) )
     => probe.result = state
  /\ ( /\ probe.action # Null
       /\ probe.action.type = "DEFEND"
       /\ IF Some(state.playerField, probe.action.updatedCreature.id)
          THEN state.playerEnergy < DEFEND_ENERGY_COST
          ELSE state.enemyEnergy < DEFEND_ENERGY_COST )
     => probe.result = state

\* the enemy, out of energy, tries to defend
C7_EnemyDefendRejected ==
  /\ probe.action # Null
  /\ probe.action.type = "DEFEND"
  /\ Some(state.enemyField, probe.action.updatedCreature.id)
  /\ state.enemyEnergy = 0
  /\ probe.result = state

\* C8: UseTool with a result that is missing or has no updatedCreature, and
\* UseSpell with a result that is missing or has no updatedCaster or no
\* updatedTarget, return the unmodified state and raise no error.
C8_MalformedResultIsNoOp ==
  /\ ( /\ probe.action # Null
       /\ probe.action.type = "USE_TOOL"
       /\ (probe.action.result = Null \/ probe.action.result.updatedCreature = Null) )
     => probe.result = state
  /\ ( /\ probe.action # Null
       /\ probe.action.type = "USE_SPELL"
       /\ \/ probe.action.spellResult = Null
          \/ probe.action.spellResult.updatedCaster = Null
          \/ probe.action.spellResult.updatedTarget = Null )
     => probe.result = state

\* C10: ApplyEnergyDecay sets the energy of each side to energy - energy \div 10,
\* never below 0, and changes nothing else.
C10_DecayTakesATenth ==
  ( probe.action # Null /\ probe.action.type = "APPLY_ENERGY_DECAY" )
  => /\ probe.result = [state EXCEPT !.playerEnergy = state.playerEnergy - (state.playerEnergy \div 10),
                                      !.enemyEnergy = state.enemyEnergy - (state.enemyEnergy \div 10)]
     /\ probe.result.playerEnergy >= 0
     /\ probe.result.enemyEnergy >= 0

\* energy 15 becomes 14 while the other side's 9 stays
C10_FifteenBecomesFourteen ==
  /\ probe.action # Null
  /\ probe.action.type = "APPLY_ENERGY_DECAY"
  /\ state.enemyEnergy = 15
  /\ state.playerEnergy = 9
  /\ probe.result.enemyEnergy = 14
  /\ probe.result.playerEnergy = 9

\* the precondition of a step of a sequence fails on state s: the enemy's
\* energy is below the step's cost, or the step deploys a creature that is
\* on the enemy's field
StepFails(s, aiAction) ==
  \/ aiAction.energyCost # Undefined /\ s.enemyEnergy < aiAction.energyCost
  \/ aiAction.type = "deploy" /\ Some(s.enemyField, aiAction.creature.id)

\* the sequence made of one step, run on the state the reducer was called on
StepAlone(aiAction) ==
  battleReducer(state, [type |-> "EXECUTE_AI_ACTION_SEQUENCE", actionSequence |-> << aiAction >>])

\* C20: in an ExecuteAIActionSequence whose deploy, attack and defend steps
\* declare their cost, a step whose precondition fails (the enemy's energy is
\* below its cost, or it deploys a creature that is on the field already)
\* leaves the accumulated state as it is, and the steps after it are run on
\* the accumulated state: the result is the result of the sequence without
\* the failing step, and the sequence is never aborted.
C20_FailingStepIsSkipped ==
  ( /\ probe.action # Null
    /\ probe.action.type = "EXECUTE_AI_ACTION_SEQUENCE"
    /\ \A k \in 1..Len(probe.action.actionSequence) :
         probe.action.actionSequence[k].type \in {"deploy", "attack", "defend"}
           => probe.action.actionSequence[k].energyCost # Undefined )
  => LET first == probe.action.actionSequence[1]
         second == probe.action.actionSequence[2]
     IN  /\ probe.result # TypeError
         /\ StepFails(state, first)
              => StepAlone(first) = state /\ probe.result = StepAlone(second)
         /\ (~StepFails(state, first) /\ StepFails(StepAlone(first), second))
              => StepAlone(first) # state /\ probe.result = StepAlone(first)

\* the first step deploys a creature that is on the field already and the
\* second step, an attack, is applied
C20_AttackAfterDuplicateDeploy ==
  /\ probe.action # Null
  /\ probe.action.type = "EXECUTE_AI_ACTION_SEQUENCE"
  /\ probe.action.actionSequence[1].type = "deploy"
  /\ Some(state.enemyField, probe.action.actionSequence[1].creature.id)
  /\ state.enemyEnergy >= probe.action.actionSequence[1].energyCost
  /\ probe.action.actionSequence[2].type = "attack"
  /\ probe.result # TypeError
  /\ probe.result.enemyEnergy = state.enemyEnergy - ATTACK_ENERGY_COST
  /\ probe.result.playerField # state.playerField

\* C21: an Attack takes its cost from the attacker's side only and adds to
\* that side's streak and momentum only; an Attack whose attacker is on
\* neither field leaves the state unchanged.
C21_AttackChargesAttackerOnly ==
  (probe.action # Null /\ probe.action.type = "ATTACK")
  => LET attacker == probe.action.attackResult.updatedAttacker
         cost == probe.action.energyCost
         after == probe.result
     IN  /\ Some(state.playerField, attacker.id)
              => /\ after.enemyEnergy = state.enemyEnergy
                 /\ after.consecutiveActions.enemy = state.consecutiveActions.enemy
                 /\ after.energyMomentum.enemy = state.energyMomentum.enemy
                 /\ state.playerEnergy >= cost
                      => /\ after.playerEnergy = state.playerEnergy - cost
                         /\ after.consecutiveActions.player = state.consecutiveActions.player + 1
                         /\ after.energyMomentum.player = state.energyMomentum.player + cost
         /\ Some(state.enemyField, attacker.id)
              => /\ after.playerEnergy = state.playerEnergy
                 /\ after.consecutiveActions.player = state.consecutiveActions.player
                 /\ after.energyMomentum.player = state.energyMomentum.player
                 /\ state.enemyEnergy >= cost
                      => /\ after.enemyEnergy = state.enemyEnergy - cost
                         /\ after.consecutiveActions.enemy = state.consecutiveActions.enemy + 1
                         /\ after.energyMomentum.enemy = state.energyMomentum.enemy + cost
         /\ (~Some(state.playerField, attacker.id) /\ ~Some(state.enemyField, attacker.id))
              => after = state

\* C22: a deploy of a creature whose id is on the deploying side's field
\* already leaves the state unchanged, for the player (DeployCreature) as for
\* the enemy (EnemyDeployCreature, the deploy steps of
\* ExecuteAIActionSequence).
C22_DuplicateDeployRejected ==
  /\ ( /\ probe.action # Null
       /\ probe.action.type = "DEPLOY_CREATURE"
       /\ Some(state.playerField, probe.action.creature.id) )
     => probe.result = state
  /\ ( /\ probe.action # Null
       /\ probe.action.type = "ENEMY_DEPLOY_CREATURE"
       /\ Some(state.enemyField, probe.action.creature.id) )
     => probe.result = state
  /\ ( /\ probe.action # Null
       /\ probe.action.type = "EXECUTE_AI_ACTION_SEQUENCE"
       /\ \A k \in 1..Len(probe.action.actionSequence) :
            /\ probe.action.actionSequence[k].type = "deploy"
            /\ Some(state.enemyField, probe.action.actionSequence[k].creature.id) )
     => probe.result = state

\* the log before is the beginning of the log after
IsPrefix(before, after) ==
  Len(before) <= Len(after) /\ SubSeq(after, 1, Len(before)) = before

\* C23 as stated: across every transition, StartBattle included, the log
\* before is a prefix of the log after and the log's length does not
\* decrease.
C23_LogIsAppendOnly ==
  (probe.action # Null /\ probe.result # TypeError)
  => /\ IsPrefix(state.battleLog, probe.result.battleLog)
     /\ Len(probe.result.battleLog) >= Len(state.battleLog)

\* C23: across every transition but StartBattle the log before is a prefix
\* of the log after, AddLog adding exactly one entry at the end; StartBattle
\* replaces the log by the single entry of the new battle's start.
C23_LogAppendOnlyWithinBattle ==
  (probe.action # Null /\ probe.result # TypeError)
  => /\ probe.action.type # "START_BATTLE"
          => IsPrefix(state.battleLog, probe.result.battleLog)
     /\ probe.action.type = "ADD_LOG"
          => probe.result.battleLog
               = Append(state.battleLog, [turn |-> state.turn, message |-> probe.action.message])
     /\ probe.action.type = "START_BATTLE"
          => probe.result.battleLog = << [turn |-> 1, message |-> "Battle started"] >>

\* an entry is added to a log that holds one
C23_EntryAppended ==
  /\ probe.action # Null
  /\ probe.action.type = "ADD_LOG"
  /\ Len(state.battleLog) = MaxLog
  /\ state.turn = 2
  /\ Len(probe.result.battleLog) = MaxLog + 1

\* C24 as stated: turn is at least 1 and no transition, StartBattle
\* included, lowers it; IncrementTurn adds exactly 1.
C24_TurnNeverDecreases ==
  /\ state.turn >= 1
  /\ (probe.action # Null /\ probe.result # TypeError)
     => /\ probe.result.turn >= state.turn
        /\ probe.action.type = "INCREMENT_TURN" => probe.result.turn = state.turn + 1

\* C24: turn is at least 1; IncrementTurn adds exactly 1, StartBattle sets
\* it back to 1, and every other transition leaves it as it is.
C24_TurnGrowsWithinBattle ==
  /\ state.turn >= 1
  /\ (probe.action # Null /\ probe.result # TypeError)
     => probe.result.turn = CASE probe.action.type = "INCREMENT_TURN" -> state.turn + 1
                              [] probe.action.type = "START_BATTLE" -> 1
                              [] OTHER -> state.turn

\* the turn is incremented from 2 to 3
C24_ThirdTurnBegins ==
  /\ probe.action # Null
  /\ probe.action.type = "INCREMENT_TURN"
  /\ state.turn = 2
  /\ probe.result.turn = 3

\* C25: RegenerateEnergy(playerRegen, enemyRegen) sets each side's energy
\* to min(MAX_ENERGY, energy + regen + floor(momentum / 10)) with the side's
\* own momentum, sets both momentums to 0 and changes nothing else.
C25_RegenerateAddsMomentumBonus ==
  (probe.action # Null /\ probe.action.type = "REGENERATE_ENERGY")
  => /\ probe.result.playerEnergy
          = Min(MAX_ENERGY, state.playerEnergy + probe.action.playerRegen
                            + (state.energyMomentum.player \div 10))
     /\ probe.result.enemyEnergy
          = Min(MAX_ENERGY, state.enemyEnergy + probe.action.enemyRegen
                            + (state.energyMomentum.enemy \div 10))
     /\ probe.result.energyMomentum = [player |-> 0, enemy |-> 0]
     /\ [probe.result EXCEPT !.playerEnergy = state.playerEnergy,
                             !.enemyEnergy = state.enemyEnergy,
                             !.energyMomentum = state.energyMomentum] = state

\* the player, who has spent 10 and more, is granted a bonus below the cap,
\* and the enemy, who has spent less than 10, none
C25_PlayerEarnsBonus ==
  /\ probe.action # Null
  /\ probe.action.type = "REGENERATE_ENERGY"
  /\ state.energyMomentum.player >= 10
  /\ state.energyMomentum.enemy \in 1..9
  /\ probe.result.playerEnergy = state.playerEnergy + probe.action.playerRegen + 1
  /\ probe.result.playerEnergy < MAX_ENERGY
  /\ probe.result.enemyEnergy = state.enemyEnergy + probe.action.enemyRegen
  /\ probe.result.enemyEnergy < MAX_ENERGY

\* arr without the item
Without(arr, item) == SelectSeq(arr, LAMBDA x : x.id # item.id)

\* the collections of tools and spells of the two sides
Collections(s) == << s.playerTools, s.playerSpells, s.enemyTools, s.enemySpells >>

\* C27: after a successful UseTool or UseSpell, of the player or of the
\* enemy, dispatched as the component dispatches it or folded through
\* ExecuteAIAction, the item is gone from the using side's collection and
\* the three other collections are unchanged.
C27_ItemsAreSingleUse ==
  /\ ( /\ probe.action # Null
       /\ probe.action.type = "USE_TOOL"
       /\ probe.action.result # Null
       /\ probe.action.result.updatedCreature # Null )
     => Collections(probe.result)
          = IF probe.action.isPlayerTool
            THEN << Without(state.playerTools, probe.action.tool), state.playerSpells,
                    state.enemyTools, state.enemySpells >>
            ELSE << state.playerTools, state.playerSpells,
                    Without(state.enemyTools, probe.action.tool), state.enemySpells >>
  /\ ( /\ probe.action # Null
       /\ probe.action.type = "USE_SPELL"
       /\ probe.action.spellResult # Null
       /\ probe.action.spellResult.updatedCaster # Null
       /\ probe.action.spellResult.updatedTarget # Null
       /\ (IF probe.action.isEnemySpell THEN state.enemyEnergy ELSE state.playerEnergy)
            >= OrElse(probe.action.energyCost, SPELL_ENERGY_COST) )
     => Collections(probe.result)
          = IF probe.action.isEnemySpell
            THEN << state.playerTools, state.playerSpells,
                    state.enemyTools, Without(state.enemySpells, probe.action.spell) >>
            ELSE << state.playerTools, Without(state.playerSpells, probe.action.spell),
                    state.enemyTools, state.enemySpells >>
  /\ ( /\ probe.action # Null
       /\ probe.action.type = "EXECUTE_AI_ACTION"
       /\ probe.action.aiAction.type = "useTool"
       /\ ~probe.action.aiAction.tool.fails )
     => Collections(probe.result)
          = << state.playerTools, state.playerSpells,
               Without(state.enemyTools, probe.action.aiAction.tool), state.enemySpells >>
  /\ ( /\ probe.action # Null
       /\ probe.action.type = "EXECUTE_AI_ACTION"
       /\ probe.action.aiAction.type = "useSpell"
       /\ ~probe.action.aiAction.spell.fails
       /\ state.enemyEnergy >= OrElse(probe.action.aiAction.energyCost, SPELL_ENERGY_COST) )
     => Collections(probe.result)
          = << state.playerTools, state.playerSpells,
               state.enemyTools, Without(state.enemySpells, probe.action.aiAction.spell) >>

\* the enemy's only tool is used through ExecuteAIAction while the player
\* holds a tool and a spell
C27_EnemyToolSpent ==
  /\ probe.action # Null
  /\ probe.action.type = "EXECUTE_AI_ACTION"
  /\ probe.action.aiAction.type = "useTool"
  /\ Len(state.enemyTools) = 1
  /\ Len(state.playerTools) = 1 /\ Len(state.playerSpells) = 1
  /\ Len(probe.result.enemyTools) = 0
  /\ probe.result.playerTools = state.playerTools
  /\ probe.result.enemyField # state.enemyField

\* the streaks after n successful actions of side
Credited(side, n) == [state.consecutiveActions EXCEPT ![side] = @ + n]

\* the side an action of the reducer is attributable to, and whether its
\* preconditions hold on state: a deploy of a creature that is not on the
\* side's field, an attack or a defence of a creature of a field, a tool or
\* a spell as the component dispatches it, a descriptor of the AI
ActingSide(action) ==
  CASE action.type \in {"ATTACK"} ->
         IF Some(state.playerField, action.attackResult.updatedAttacker.id) THEN "player"
         ELSE "enemy"
    [] action.type = "DEFEND" ->
         IF Some(state.playerField, action.updatedCreature.id) THEN "player" ELSE "enemy"
    [] action.type = "DEPLOY_CREATURE" -> "player"
    [] action.type = "USE_TOOL" -> IF action.isPlayerTool THEN "player" ELSE "enemy"
    [] action.type = "USE_SPELL" -> IF action.isEnemySpell THEN "enemy" ELSE "player"
    [] OTHER -> "enemy"

EnergyOf(side) == IF side = "player" THEN state.playerEnergy ELSE state.enemyEnergy

DescriptorSucceeds(s, aiAction) ==
  CASE aiAction.type = "deploy" ->
         /\ s.enemyEnergy >= OrElse(aiAction.energyCost, 3)
         /\ ~Some(s.enemyField, aiAction.creature.id)
    [] aiAction.type = "attack" -> s.enemyEnergy >= OrElse(aiAction.energyCost, 2)
    [] aiAction.type = "defend" -> s.enemyEnergy >= OrElse(aiAction.energyCost, 1)
    [] aiAction.type = "useTool" -> ~aiAction.tool.fails
    [] aiAction.type = "useSpell" ->
         /\ s.enemyEnergy >= OrElse(aiAction.energyCost, SPELL_ENERGY_COST)
         /\ ~aiAction.spell.fails
    [] OTHER -> FALSE

Succeeds(action) ==
  CASE action.type \in {"DEPLOY_CREATURE", "ENEMY_DEPLOY_CREATURE"} ->
         EnergyOf(ActingSide(action))
           >= OrElse(OrElse(action.energyCost, action.creature.battleStats.energyCost), 3)
    [] action.type = "ATTACK" -> EnergyOf(ActingSide(action)) >= action.energyCost
    [] action.type = "DEFEND" -> EnergyOf(ActingSide(action)) >= DEFEND_ENERGY_COST
    [] action.type = "USE_TOOL" -> TRUE
    [] action.type = "USE_SPELL" ->
         EnergyOf(ActingSide(action)) >= OrElse(action.energyCost, SPELL_ENERGY_COST)
    [] action.type = "EXECUTE_AI_ACTION" -> DescriptorSucceeds(state, action.aiAction)
    [] OTHER -> FALSE

\* the actions the streak's rule is checked on
Attributable(action) ==
  CASE action.type = "DEPLOY_CREATURE" -> ~Some(state.playerField, action.creature.id)
    [] action.type = "ENEMY_DEPLOY_CREATURE" -> ~Some(state.enemyField, action.creature.id)
    [] action.type = "ATTACK" ->
         \/ Some(state.playerField, action.attackResult.updatedAttacker.id)
         \/ Some(state.enemyField, action.attackResult.updatedAttacker.id)
    [] action.type = "DEFEND" -> TRUE
    [] action.type = "USE_TOOL" ->
         action.result # Null /\ action.result.updatedCreature # Null
    [] action.type = "USE_SPELL" ->
         /\ action.spellResult # Null
         /\ action.spellResult.updatedCaster # Null
         /\ action.spellResult.updatedTarget # Null
    [] action.type = "EXECUTE_AI_ACTION" -> TRUE
    [] OTHER -> FALSE

\* how many steps of a two-step sequence with declared costs succeed
StepsApplied(actionSequence) ==
  LET one == IF StepFails(state, actionSequence[1]) THEN 0 ELSE 1
      two == IF StepFails(StepAlone(actionSequence[1]), actionSequence[2]) THEN 0 ELSE 1
  IN  one + two

\* C28: every successful deploy, attack, tool, spell or defence adds exactly
\* 1 to the streak of the side it is attributable to and leaves the other
\* side's streak; a rejected action leaves both.
C28_SingleActionsCountOnce ==
  (probe.action # Null /\ probe.result # TypeError /\ Attributable(probe.action))
  => probe.result.consecutiveActions
       = IF Succeeds(probe.action) THEN Credited(ActingSide(probe.action), 1)
         ELSE state.consecutiveActions

\* C28: the same for the enemy's steps folded through
\* ExecuteAIActionSequence: each step that is applied adds 1 to the enemy's
\* streak.
C28_EverySuccessCountsOnce ==
  /\ C28_SingleActionsCountOnce
  /\ ( /\ probe.action # Null
       /\ probe.action.type = "EXECUTE_AI_ACTION_SEQUENCE"
       /\ \A k \in 1..Len(probe.action.actionSequence) :
            /\ probe.action.actionSequence[k].type \in {"deploy", "attack", "defend"}
            /\ probe.action.actionSequence[k].energyCost # Undefined )
     => probe.result.consecutiveActions
          = Credited("enemy", StepsApplied(probe.action.actionSequence))

\* the energy the call of the reducer took from side
Spent(side) ==
  EnergyOf(side)
    - (IF side = "player" THEN probe.result.playerEnergy ELSE probe.result.enemyEnergy)

\* the momentum after side has spent what the call took from it
Accrued(side) == [state.energyMomentum EXCEPT ![side] = @ + Spent(side)]

\* the calls that are not a defence: deploy, attack, tool, spell, and the
\* AI's descriptors of these kinds
NotADefence(action) ==
  /\ Attributable(action)
  /\ action.type # "DEFEND"
  /\ action.type = "EXECUTE_AI_ACTION" => action.aiAction.type # "defend"

\* C30: a deploy, an attack or a spell adds the energy it takes from its
\* side to that side's energyMomentum and leaves the other side's.
C30_MomentumTracksOtherSpending ==
  (probe.action # Null /\ probe.result # TypeError /\ NotADefence(probe.action))
  => probe.result.energyMomentum = Accrued(ActingSide(probe.action))

\* C30: energyMomentum of a side is the energy the side has spent since the
\* last regeneration or StartBattle: every deploy, attack, spell and
\* defence, the enemy's steps of an action sequence included, adds what it
\* takes from the side's energy to the side's energyMomentum.
C30_MomentumTracksSpending ==
  ( /\ probe.action # Null
    /\ probe.result # TypeError
    /\ \/ Attributable(probe.action)
       \/ /\ probe.action.type = "EXECUTE_AI_ACTION_SEQUENCE"
          /\ \A k \in 1..Len(probe.action.actionSequence) :
               /\ probe.action.actionSequence[k].type \in {"deploy", "attack", "defend"}
               /\ probe.action.actionSequence[k].energyCost # Undefined )
  => probe.result.energyMomentum = Accrued(ActingSide(probe.action))

\* C33: StartBattle, from any state (those of a finished battle included),
\* yields gameState battle, turn 1, activePlayer player, both energies 10,
\* both fields empty, both streaks and both momentums 0, the decks, hands,
\* tools and spells of the action, and a log of exactly one entry.
C33_StartBattleResets ==
  (probe.action # Null /\ probe.action.type = "START_BATTLE")
  => /\ probe.result.gameState = "battle"
     /\ probe.result.turn = 1
     /\ probe.result.activePlayer = "player"
     /\ probe.result.playerEnergy = 10 /\ probe.result.enemyEnergy = 10
     /\ probe.result.playerField = << >> /\ probe.result.enemyField = << >>
     /\ probe.result.consecutiveActions = [player |-> 0, enemy |-> 0]
     /\ probe.result.energyMomentum = [player |-> 0, enemy |-> 0]
     /\ probe.result.playerDeck = probe.action.playerDeck
     /\ probe.result.playerHand = probe.action.playerHand
     /\ probe.result.enemyDeck = probe.action.enemyDeck
     /\ probe.result.enemyHand = probe.action.enemyHand
     /\ probe.result.playerTools = probe.action.playerTools
     /\ probe.result.playerSpells = probe.action.playerSpells
     /\ probe.result.enemyTools = probe.action.enemyTools
     /\ probe.result.enemySpells = probe.action.enemySpells
     /\ Len(probe.result.battleLog) = 1

\* StartBattle on the state a won battle has left: second turn, energy
\* spent, creatures on a field, streak and momentum above 0
C33_StartedAfterVictory ==
  /\ probe.action # Null
  /\ probe.action.type = "START_BATTLE"
  /\ state.gameState = "victory"
  /\ state.turn = 2
  /\ state.playerEnergy # 10
  /\ Len(state.playerField) > 0
  /\ state.consecutiveActions.player > 0
  /\ state.energyMomentum.player > 0
  /\ state.battleLog # probe.result.battleLog

\* C36: a call of the reducer leaves the state it was given as it was, so
\* that the same action applied to it again gives the same result.
C36_ReducerLeavesItsInput ==
  (probe.action # Null /\ probe.result # TypeError)
  => /\ StateAfterCall(state, probe.action) = state
     /\ battleReducer(StateAfterCall(state, probe.action), probe.action) = probe.result

(***************************************************************************)
(* Properties of one pass of APPLY_ONGOING_EFFECTS (EffectSpec)            *)
(***************************************************************************)
\* how many of the effects are the curse
CurseCount(effects) == Cardinality({i \in 1..Len(effects) : effects[i] = Curse})

\* C13: one ApplyOngoingEffects pass over a field creature that carries an
\* effect with duration 1 and healthEffect -5 takes 5 from its currentHealth,
\* stopping at 0 (when the effect is the only one the creature carries),
\* leaves no such effect in its activeEffects, and leaves the effect's
\* statEffect delta on its battleStats; a creature left at 0 health is gone
\* from the field.
C13_ExpiringEffectAppliedOnce ==
  probe.action # Null =>
    \A field \in {"playerField", "enemyField"} :
      LET before == state[field][1]
          effects == before.activeEffects
          survivors == probe.result[field]
      IN  CurseCount(effects) > 0 =>
            /\ effects = << Curse >> =>
                  IF before.currentHealth > 5
                  THEN /\ Len(survivors) = 1
                       /\ survivors[1].currentHealth = before.currentHealth - 5
                       /\ survivors[1].activeEffects = << >>
                  ELSE survivors = << >>
            /\ \A i \in 1..Len(survivors) :
                  /\ \A k \in 1..Len(survivors[i].activeEffects) :
                        survivors[i].activeEffects[k].name # "curse"
                  /\ survivors[i].battleStats =
                        [before.battleStats EXCEPT
                           !.physicalAttack = @ - CurseCount(effects)]

\* the player's creature, at 7 health with the curse as its only effect, is
\* left at 2 health, without the effect and with its physicalAttack lowered
C13_CurseSpent ==
  /\ probe.action # Null
  /\ state.playerField[1].currentHealth = 7
  /\ state.playerField[1].activeEffects = << Curse >>
  /\ Len(probe.result.playerField) = 1
  /\ probe.result.playerField[1].currentHealth = 2
  /\ probe.result.playerField[1].activeEffects = << >>
  /\ probe.result.playerField[1].battleStats.physicalAttack = 2

\* the effects a pass retains: those present, one tick shorter, while the
\* shorter duration is above 0
Retained(effects) ==
  LET kept == SelectSeq(effects, LAMBDA e : e # Null /\ e.duration - 1 > 0)
  IN  [k \in 1..Len(kept) |-> [kept[k] EXCEPT !.duration = @ - 1]]

TicksLeft(creature, name) ==
  IF \E k \in 1..Len(creature.activeEffects) : creature.activeEffects[k].name = name
  THEN LET k == CHOOSE k \in 1..Len(creature.activeEffects) :
                  creature.activeEffects[k].name = name
       IN  creature.activeEffects[k].duration
  ELSE 0

\* the delta the boon the creature was given makes on stat
BoonDelta(given, stat) ==
  LET boon == given.activeEffects[Len(given.activeEffects)]
  IN  IF stat \in DOMAIN boon.statEffect THEN boon.statEffect[stat] ELSE 0

\* C35: an effect of duration d with a statEffect delta v on a stat has
\* changed that stat of a surviving creature by v for each pass it has
\* been through, d * v in all once it has expired; the change stays after
\* the expiry and no pass changes the stat after it; the other stats, and
\* the creature without the effect, are not changed.
C35_StatEffectAccumulates ==
  \A field \in {"playerField", "enemyField"} :
    \A i \in 1..Len(state[field]) :
      LET now == state[field][i]
          given == closure[field][1]
      IN  \A stat \in DOMAIN now.battleStats :
            now.battleStats[stat] =
              IF given.activeEffects = << >> THEN given.battleStats[stat]
              ELSE given.battleStats[stat]
                     + (TicksLeft(given, "boon") - TicksLeft(now, "boon"))
                         * BoonDelta(given, stat)

\* a boon of three ticks and +2 physicalAttack has expired on the enemy's
\* creature and has left its physicalAttack 6 higher
C35_BoonSpent ==
  /\ closure.enemyField[1].activeEffects = << Boon(3, "physicalAttack", 2) >>
  /\ Len(state.enemyField) = 1
  /\ state.enemyField[1].activeEffects = << >>
  /\ state.enemyField[1].battleStats.physicalAttack
       = closure.enemyField[1].battleStats.physicalAttack + 6

(***************************************************************************)
(* Properties of a player's attack (AttackSpec)                            *)
(***************************************************************************)
\* C16: from the state START_BATTLE leaves (both energies 10), a player's
\* attack at cost 2 by a creature of playerField on a creature of enemyField
\* yields playerEnergy 8, the same enemyEnergy, a player streak of 1, a
\* player momentum of 2, and a log with exactly one more entry, whose turn is
\* the turn before the attack.
C16_AttackEndToEnd ==
  ( /\ probe.action # Null
    /\ probe.action.type = "ATTACK"
    /\ probe.action.energyCost = 2
    /\ state.playerEnergy = 10 /\ state.enemyEnergy = 10 )
  => /\ probe.result.playerEnergy = 8
     /\ probe.result.enemyEnergy = state.enemyEnergy
     /\ probe.result.consecutiveActions.player = 1
     /\ probe.result.energyMomentum.player = 2
     /\ Len(probe.result.battleLog) = Len(state.battleLog) + 1
     /\ SubSeq(probe.result.battleLog, 1, Len(state.battleLog)) = state.battleLog
     /\ probe.result.battleLog[Len(probe.result.battleLog)].turn = state.turn

\* in turn 3 the player's creature has killed the enemy's: the player is at 8
\* energy and the log's new entry is of turn 3
C16_AttackInTurnThree ==
  /\ probe.action # Null
  /\ probe.action.type = "ATTACK"
  /\ state.turn = 3
  /\ state.playerEnergy = 10
  /\ Len(probe.result.enemyField) = Len(state.enemyField) - 1
  /\ probe.result.playerEnergy = 8
  /\ probe.result.enemyEnergy = 10
  /\ probe.result.battleLog[Len(probe.result.battleLog)].turn = 3

(***************************************************************************)
(* Properties of a draw (DrawSpec)                                         *)
(***************************************************************************)
\* C26: DrawCard(side) with a non-empty deck takes the front creature of the
\* side's deck, leaving the rest of the deck in its order, and adds it to
\* the side's hand; nothing else changes, the other side's containers
\* included.  With an empty deck it returns the state unchanged.
C26_DrawCardMovesFront ==
  (probe.action # Null /\ probe.action.type = "DRAW_CARD")
  => LET deck == IF probe.action.player = "player" THEN "playerDeck" ELSE "enemyDeck"
         hand == IF probe.action.player = "player" THEN "playerHand" ELSE "enemyHand"
     IN  IF Len(state[deck]) = 0
         THEN probe.result = state
         ELSE /\ probe.result[deck] = Tail(state[deck])
              /\ probe.result[hand] = Append(state[hand], state[deck][1])
              /\ [probe.result EXCEPT ![deck] = state[deck], ![hand] = state[hand]] = state

\* the enemy draws the first of the two creatures of its deck
C26_EnemyDrawsFirstOfTwo ==
  /\ probe.action # Null
  /\ probe.action.type = "DRAW_CARD"
  /\ probe.action.player = "enemy"
  /\ Len(state.enemyDeck) = 2
  /\ state.enemyDeck[1].id # state.enemyDeck[2].id
  /\ Len(probe.result.enemyDeck) = 1
  /\ probe.result.enemyDeck[1] = state.enemyDeck[2]
  /\ probe.result.playerDeck = state.playerDeck
  /\ probe.result.enemyHand[Len(probe.result.enemyHand)] = state.enemyDeck[1]

(***************************************************************************)
(* Properties of the battle of Skirmish (SkirmishSpec)                     *)
(***************************************************************************)
\* C37: when the timer of a single AI action runs out with less than 2
\* energy left to the enemy, the enemy's turn is finished: no other AI
\* decision is made.
C37_LowEnergyEndsEnemyTurn ==
  [][(AINextTimer /\ state.enemyEnergy < 2)
       => (pc' = "none" /\ state'.activePlayer = "player")]_vars


(***************************************************************************)
(* Properties of the battle with its timers running out (TimerSpec)        *)
(***************************************************************************)
\* an endTurn has been accepted in a battle: its 750 ms timer is pending
EndTurnAccepted ==
  /\ pc = "endTurnTimer"
  /\ state.gameState = "battle"
  /\ state.turn < TurnCap

\* the player's turn, nothing in flight
PlayerTurnIdle ==
  /\ pc = "none"
  /\ state.activePlayer = "player"
  /\ ~actionInProgress

GuardHeldInBattle ==
  /\ actionInProgress
  /\ state.gameState = "battle"
  /\ state.turn < TurnCap

\* C38: every accepted endTurn of the player is followed, the timers running
\* out and a continuation draw failing in the end, by the enemy's end-turn
\* phase, after which the player is active and the guard is released, or by
\* gameState leaving battle; the guard is never held for ever in a battle
C38_EnemyTurnComesToAnEnd ==
  /\ EndTurnAccepted ~> (PlayerTurnIdle \/ state.gameState # "battle")
  /\ GuardHeldInBattle ~> (~actionInProgress \/ state.gameState # "battle")

\* the enemy's end-turn phase has run in a battle that goes on: the second
\* turn, the player active, the guard released
C38_SecondTurnReached ==
  /\ state.gameState = "battle"
  /\ state.turn = 2
  /\ PlayerTurnIdle
  /\ Len(state.enemyField) > 0

(***************************************************************************)
(* Properties of the number of creatures of a side (ReducerSpec)           *)
(***************************************************************************)
Sides == {"player", "enemy"}

FieldOf(s, side) == IF side = "player" THEN s.playerField ELSE s.enemyField

\* the creatures of a side: deck + hand + field
CreaturesOf(s, side) ==
  IF side = "player"
  THEN Len(s.playerDeck) + Len(s.playerHand) + Len(s.playerField)
  ELSE Len(s.enemyDeck) + Len(s.enemyHand) + Len(s.enemyField)

\* the creatures of the side's field in s that are not on it in r
RemovedFromField(s, r, side) ==
  Cardinality({i \in 1..Len(FieldOf(s, side)) :
                 FieldOf(s, side)[i].id \notin IdsOf(FieldOf(r, side))})

\* from s to r each side keeps its creatures but those that left its field
CountsKept(s, r) ==
  \A side \in Sides :
    CreaturesOf(r, side) = CreaturesOf(s, side) - RemovedFromField(s, r, side)

\* a call of the reducer after START_BATTLE that returned a state; a player's
\* deploy is of a creature of the hand
CalledInBattle ==
  /\ probe # NoProbe
  /\ probe.result # TypeError
  /\ probe.action.type # "START_BATTLE"
  /\ probe.action.type = "DEPLOY_CREATURE"
       => probe.action.creature.id \in IdsOf(state.playerHand)

====
